---- MODULE Spec2Model ----
(***************************************************************************)
(* A model of the weather-forecast index-and-resolve engine:               *)
(*   bunk_index.py        the global-coverage indexer (index_file)         *)
(*   grib_index.py        the per-(file, variable) index with an R-Tree    *)
(*                        (build_index, query)                             *)
(*   query_file_index.py  the nearest-match / range resolver and the       *)
(*                        parallel extraction stage (query_func)           *)
(*                                                                         *)
(* Conventions.  Python's None and SQL's NULL are the string "None" for    *)
(* text values and NoneInt for integer values.  An instant is a number of  *)
(* hours since the midnight that starts day 0.  A timestamp text is a      *)
(* record [t, sfx]: the fixed-width date-time digits (compared as the      *)
(* number t) followed by the suffix sfx ("", "+00:00" or "Z"), so that the *)
(* text comparison SQLite makes is LexLeq below.                           *)
(***************************************************************************)
EXTENDS Integers, Sequences, FiniteSets, TLC

VARIABLES
    \* ---- bunk_index.py: the records table of SCHEMA_SQL and index_file
    records_bunk,   \* set of rows of the table `records` (bunk_index schema)
    bunk_ret,       \* outcome of the last index_file call
    bunk_calls,     \* per file: completed index_file calls that reached the DB
    \* ---- grib_index.py: corpus on disk, the three tables, the last query
    disk,           \* per path: "absent" or the file's current content
    db_exists,      \* os.path.exists(db_path)
    files,          \* rows of table `files`
    records,        \* rows of table `records` (grib_index schema)
    spatial_index,  \* rows of the R-Tree `spatial_index`
    q_args,         \* arguments of the last grib_index.query call
    q_ret,          \* its outcome
    \* ---- query_file_index.py: the table the resolver reads, its results
    records_q,      \* sequence of rows, in insertion (rowid) order
    r_args,         \* arguments of the last resolver call
    r_ret,          \* its outcome
    \* ---- query_file_index.py: one query_func call
    x_pc,           \* position of query_func
    x_records,      \* the winning records of the call
    x_strategy,     \* executor class in use: "process", "thread" or "none"
    x_submitted,    \* records submitted to the running executor
    x_worked,       \* records whose worker has finished in the running executor
    x_lost,         \* futures whose result() raised in the as_completed loop
    x_broken,       \* the process pool is broken (a worker process died)
    x_opens,        \* per record: open() calls made on its file during the call
    x_pending,      \* futures not yet consumed by as_completed
    x_out,          \* out_local of the running _run_with_executor
    x_ret,          \* outcome of query_func
    x_log,          \* paths the workers logged as failed during the call
    x_fault,        \* per file: the decoder call that fails on it, if any
    \* ---- the message loops of scan_grib_messages, extract_file_metadata and
    \* ---- _process_record_worker, one decoder call at a time
    s_fn,           \* the function that scans
    s_msgs,         \* the messages of the file it scans
    s_pos,          \* messages obtained from the decoder so far
    s_pc,           \* position in the loop
    s_live,         \* handles obtained and not released
    s_rel,          \* per message: codes_release calls on its handle
    s_exit,         \* how the try body was left: "next", "break" or "raise"
    s_out,          \* what the loop appended to out
    \* ---- _compute_times_from_message on one message
    t_msg,          \* the header keys of the message
    t_ret,          \* the outcome of the last call
    \* ---- the two file name parsers on one name
    n_name,         \* the file name: product letters, the two stamps
    n_ret,          \* what each parser returned for it
    \* ---- one call of a function that opens a storage connection
    c_fn,           \* the function called
    c_plan,         \* the store it finds and what each SQL statement does
    c_pc,           \* position in the function
    c_conn,         \* the connection of the call: "none", "open" or "closed"
    \* ---- cfs_fetch.py: runs of crawl_and_download over the same out_dir
    d_disk,         \* per URL: its destination file
    d_task,         \* per URL: the download_file task of the current run
    d_doneq,        \* tasks finished and not yet yielded by as_completed
    d_main,         \* position of crawl_and_download
    d_conc,         \* the concurrency argument of the run
    d_runs,         \* runs started so far
    d_hard,         \* a task of the run has finished with a hard error
    d_late          \* tasks that issued a request after that

vars == <<records_bunk, bunk_ret, bunk_calls,
          disk, db_exists, files, records, spatial_index, q_args, q_ret,
          records_q, r_args, r_ret,
          x_pc, x_records, x_strategy, x_submitted, x_worked, x_lost, x_broken, x_opens,
          x_pending, x_out, x_ret, x_log, x_fault,
          s_fn, s_msgs, s_pos, s_pc, s_live, s_rel, s_exit, s_out, t_msg, t_ret,
          n_name, n_ret, c_fn, c_plan, c_pc, c_conn,
          d_disk, d_task, d_doneq, d_main, d_conc, d_runs, d_hard, d_late>>

bunk_vars == <<records_bunk, bunk_ret, bunk_calls>>
grib_vars == <<disk, db_exists, files, records, spatial_index, q_args, q_ret>>
res_vars  == <<records_q, r_args, r_ret>>
ext_vars  == <<x_pc, x_records, x_strategy, x_submitted, x_worked, x_lost, x_broken, x_opens,
               x_pending, x_out, x_ret, x_log, x_fault>>
scan_vars == <<s_fn, s_msgs, s_pos, s_pc, s_live, s_rel, s_exit, s_out>>
times_vars == <<t_msg, t_ret>>
names_vars == <<n_name, n_ret>>
conn_vars == <<c_fn, c_plan, c_pc, c_conn>>
fetch_vars == <<d_disk, d_task, d_doneq, d_main, d_conc, d_runs, d_hard, d_late>>

NoneInt == -1

Max(S) == CHOOSE x \in S : \A y \in S : y <= x
Min(S) == CHOOSE x \in S : \A y \in S : x <= y
Abs(x) == IF x < 0 THEN -x ELSE x
Range(s) == {s[i] : i \in DOMAIN s}

\* Rank of a timestamp suffix in ASCII order: "" < "+00:00" < "Z".
SfxRank(sfx) == CASE sfx = "" -> 0 [] sfx = "+00:00" -> 1 [] OTHER -> 2
\* a <= b for two timestamp texts (SQLite's BINARY collation on TEXT).
LexLeq(a, b) == a.t < b.t \/ (a.t = b.t /\ SfxRank(a.sfx) <= SfxRank(b.sfx))

\* INTEGER PRIMARY KEY without AUTOINCREMENT: one more than the largest rowid.
NextRowid(table) == IF table = {} THEN 1 ELSE Max({r.id : r \in table}) + 1

(***************************************************************************)
(* bunk_index.py                                                           *)
(***************************************************************************)

MaxBunkCalls == 2     \* index_file calls per file

\* The ten digits YYYYMMDDHH of a file name: a day and an hour field.  Hour
\* 24 is ten digits that are no valid time.
Stamp(d, h) == [d |-> d, h |-> h]

\* The file names handed to index_file: product, first stamp, member, second
\* stamp, extension; and what the decoder and cfgrib find in each file.
BunkCorpus ==
    [ fA |-> [product |-> "flxf", first |-> Stamp(0, 18), second |-> Stamp(0, 12),
              ext |-> "grb2", cfgrib_vars |-> {"t2m", "prate"},
              msgs |-> << [shortName |-> "t2m", dataDate |-> 0, dataTime |-> 1200,
                           forecastTime |-> 6, stepRange |-> "None", endStep |-> NoneInt, step |-> NoneInt] >> ],
      fB |-> [product |-> "flxf", first |-> Stamp(1, 0), second |-> Stamp(0, 12),
              ext |-> "grb2", cfgrib_vars |-> {},
              msgs |-> << [shortName |-> "t2m", dataDate |-> 0, dataTime |-> 12,
                           forecastTime |-> NoneInt, stepRange |-> "6-12", endStep |-> 12, step |-> 12] >> ],
      \* first stamp earlier than the second one
      fC |-> [product |-> "ocnf", first |-> Stamp(0, 6), second |-> Stamp(0, 18),
              ext |-> "grb2", cfgrib_vars |-> {"pt"},
              msgs |-> << >> ],
      \* a message without reference time
      fD |-> [product |-> "flxf", first |-> Stamp(0, 12), second |-> Stamp(0, 12),
              ext |-> "grb2", cfgrib_vars |-> {"t2m"},
              msgs |-> << [shortName |-> "t2m", dataDate |-> NoneInt, dataTime |-> NoneInt,
                           forecastTime |-> 0, stepRange |-> "None", endStep |-> NoneInt, step |-> NoneInt] >> ],
      \* a name CFS_NAME does not match, and ten digits that are no time
      fE |-> [product |-> "flxf", first |-> Stamp(0, 12), second |-> Stamp(0, 12),
              ext |-> "grib2", cfgrib_vars |-> {"t2m"}, msgs |-> << >> ],
      fF |-> [product |-> "flxf", first |-> Stamp(0, 24), second |-> Stamp(0, 12),
              ext |-> "grb2", cfgrib_vars |-> {"t2m"}, msgs |-> << >> ],
      \* a message without reference time, then a sound message
      fH |-> [product |-> "flxf", first |-> Stamp(1, 12), second |-> Stamp(1, 6),
              ext |-> "grb2", cfgrib_vars |-> {"t2m"},
              msgs |-> << [shortName |-> "prate", dataDate |-> NoneInt, dataTime |-> NoneInt,
                           forecastTime |-> 6, stepRange |-> "None", endStep |-> NoneInt,
                           step |-> NoneInt],
                          [shortName |-> "t2m", dataDate |-> 1, dataTime |-> 600,
                           forecastTime |-> 6, stepRange |-> "None", endStep |-> NoneInt,
                           step |-> NoneInt] >> ],
      \* nothing found by cfgrib nor by the scan
      fG |-> [product |-> "flxf", first |-> Stamp(1, 6), second |-> Stamp(1, 0),
              ext |-> "grb2", cfgrib_vars |-> {}, msgs |-> << >> ] ]

BunkPaths == DOMAIN BunkCorpus

\* to_dt: strptime(s, "%Y%m%d%H") as an aware UTC datetime; NoneInt stands for
\* the ValueError strptime raises.
to_dt(s) == IF s.h \in 0..23 THEN 24 * s.d + s.h ELSE NoneInt

\* _to_utc_iso of an aware UTC datetime: isoformat() ends in "+00:00".
to_utc_iso(dt) == [t |-> dt, sfx |-> "+00:00"]

\* The instant a stored timestamp text denotes.
IsoInstant(s) == s.t

\* parse_cfs_filename: err = "ValueError", or FileMeta with err = "".  The first ten digits are the
\* group `forecast`, the second ten the group `run`.
parse_cfs_filename(path) ==
    LET f == BunkCorpus[path]
    IN  IF f.ext # "grb2" THEN [err |-> "ValueError"]
        ELSE IF to_dt(f.first) = NoneInt \/ to_dt(f.second) = NoneInt
        THEN [err |-> "ValueError"]
        ELSE [err |-> "", product |-> f.product, forecast_dt |-> to_dt(f.first),
              run_dt |-> to_dt(f.second), path |-> path]

\* The end value of a stepRange text "a-b" or "b"; NoneInt when there is none.
StepRangeEnd(sr) ==
    CASE sr = "None" -> NoneInt
      [] sr = "6-12" -> 12
      [] sr = "6"    -> 6
      [] OTHER       -> NoneInt

\* The header keys _compute_times_from_message reads (NoneInt or "None": the
\* key cannot be read).
Header(dd, dt, ft, sr, es, st) ==
    [dataDate |-> dd, dataTime |-> dt, forecastTime |-> ft, stepRange |-> sr,
     endStep |-> es, step |-> st]
NoHeader == Header(NoneInt, NoneInt, NoneInt, "None", NoneInt, NoneInt)

\* The two ValueError messages.
MissingReferenceTime == "Missing reference time (dataDate/dataTime) in GRIB message"
MissingLeadTime == "Unable to determine forecast lead time (hours)"

\* The reference instant of dataDate and dataTime (HHMM, or HH below 100).
RefTime(h) ==
    LET HH == IF h.dataTime >= 100 THEN h.dataTime \div 100 ELSE h.dataTime
    IN  24 * h.dataDate + HH

\* bunk_index._compute_times_from_message: err = "ValueError" with its
\* message, or (ref, forecast, lead).  The lead is forecastTime, else the end
\* of stepRange, else endStep, else step.
compute_times_from_message(h) ==
    IF h.dataDate = NoneInt \/ h.dataTime = NoneInt
    THEN [err |-> "ValueError", msg |-> MissingReferenceTime]
    ELSE
      LET ref  == RefTime(h)
          l1   == h.forecastTime
          l2   == IF l1 = NoneInt THEN StepRangeEnd(h.stepRange) ELSE l1
          l3   == IF l2 = NoneInt THEN h.endStep ELSE l2
          lead == IF l3 = NoneInt THEN h.step ELSE l3
      IN  IF lead = NoneInt THEN [err |-> "ValueError", msg |-> MissingLeadTime]
          ELSE [err |-> "", ref |-> ref, forecast |-> ref + lead, lead_hours |-> lead]

\* grid_util._compute_times_from_message: the lead is forecastTime only.
grid_util_compute_times_from_message(h) ==
    IF h.dataDate = NoneInt \/ h.dataTime = NoneInt
    THEN [err |-> "ValueError", msg |-> MissingReferenceTime]
    ELSE
      LET ref  == RefTime(h)
          lead == h.forecastTime
      IN  IF lead = NoneInt THEN [err |-> "ValueError", msg |-> MissingLeadTime]
          ELSE [err |-> "", ref |-> ref, forecast |-> ref + lead, lead_hours |-> lead]

\* scan_grib_messages: err = "ValueError" as soon as one message has no times,
\* else the MsgMeta of every message.
scan_grib_messages(path) ==
    LET ms == BunkCorpus[path].msgs
    IN  IF \E i \in DOMAIN ms : compute_times_from_message(ms[i]).err # ""
        THEN [err |-> "ValueError", out |-> << >>]
        ELSE [err |-> "",
              out |-> [i \in DOMAIN ms |->
                         [var |-> ms[i].shortName,
                          ref_time_iso |-> to_utc_iso(compute_times_from_message(ms[i]).ref),
                          forecast_time_iso |->
                              to_utc_iso(compute_times_from_message(ms[i]).forecast),
                          lead_hours |-> compute_times_from_message(ms[i]).lead_hours]]]

\* list_vars_from_cfgrib: the data variables cfgrib finds (empty on failure).
list_vars_from_cfgrib(path) == BunkCorpus[path].cfgrib_vars

\* UNIQUE(file_path, var, level_type, level_value, forecast_time_utc) as SQLite
\* applies it: two rows conflict when all five columns are equal and none of
\* them is NULL (NULLs are distinct from each other in a UNIQUE index).
UniqueConflict(a, b) ==
    /\ a.file_path = b.file_path /\ a.var = b.var
    /\ a.level_type # "None" /\ a.level_type = b.level_type
    /\ a.level_value # NoneInt /\ a.level_value = b.level_value
    /\ a.forecast_time_utc = b.forecast_time_utc

\* lead = int((forecast_dt - run_dt).total_seconds() // 3600)
LeadHours(forecast_dt, run_dt) == ((forecast_dt - run_dt) * 3600) \div 3600

\* The row index_file binds for one variable (without its rowid).
BunkRow(meta, var) ==
    [product |-> meta.product, file_path |-> meta.path,
     run_time_utc |-> to_utc_iso(meta.run_dt),
     forecast_time_utc |-> to_utc_iso(meta.forecast_dt),
     lead_hours |-> LeadHours(meta.forecast_dt, meta.run_dt),
     var |-> var, level_type |-> "None", level_value |-> NoneInt]

WithId(row, id) == [k \in (DOMAIN row) \cup {"id"} |-> IF k = "id" THEN id ELSE row[k]]

\* INSERT ... ON CONFLICT(...) DO NOTHING of every row of `rows`, in order.
RECURSIVE InsertOrIgnore(_, _)
InsertOrIgnore(table, rows) ==
    IF rows = << >> THEN table
    ELSE LET row == Head(rows)
             t2  == IF \E r \in table : UniqueConflict(r, row) THEN table
                    ELSE table \cup {WithId(row, NextRowid(table))}
         IN  InsertOrIgnore(t2, Tail(rows))

\* The position of a variable name in text order.
TextRank(v) == CASE v = "prate" -> 1 [] v = "pt" -> 2 [] v = "t2m" -> 3 [] OTHER -> 4

\* sorted(S) for a set of variable names, as a sequence.
RECURSIVE SortedSeq(_)
SortedSeq(S) ==
    IF S = {} THEN << >>
    ELSE LET m == CHOOSE x \in S : \A y \in S : TextRank(x) <= TextRank(y)
         IN  <<m>> \o SortedSeq(S \ {m})

\* var_names of index_file: cfgrib's variables, or else those of the scan.
VarNames(path) ==
    LET msgs == scan_grib_messages(path)
        v0   == list_vars_from_cfgrib(path)
    IN  IF v0 = {} /\ msgs.out # << >>
        THEN {msgs.out[i].var : i \in DOMAIN msgs.out} ELSE v0

\* index_file(db_path, file_path): parse the name, scan the messages, take the
\* variables from cfgrib or else from the scan, insert one row per variable.
index_file(path) ==
    LET meta == parse_cfs_filename(path)
        msgs == scan_grib_messages(path)
        var_names == VarNames(path)
    IN  /\ bunk_calls[path] < MaxBunkCalls
        /\ IF meta.err # "" \/ msgs.err # ""
           THEN /\ bunk_ret' = [path |-> path, kind |-> "ValueError", inserted |-> 0]
                /\ UNCHANGED <<records_bunk, bunk_calls>>
           ELSE IF var_names = {}
           THEN /\ bunk_ret' = [path |-> path, kind |-> "return", inserted |-> 0]
                /\ UNCHANGED <<records_bunk, bunk_calls>>
           ELSE /\ records_bunk' = InsertOrIgnore(records_bunk,
                                     [i \in 1..Cardinality(var_names) |->
                                        BunkRow(meta, SortedSeq(var_names)[i])])
                /\ bunk_ret' = [path |-> path, kind |-> "return",
                                inserted |-> Cardinality(var_names)]
                /\ bunk_calls' = [bunk_calls EXCEPT ![path] = @ + 1]
        /\ UNCHANGED <<grib_vars, res_vars, ext_vars, scan_vars, times_vars,
                   names_vars, conn_vars, fetch_vars>>

(***************************************************************************)
(* grib_index.py                                                           *)
(***************************************************************************)

MaxRecId == 3         \* build_index runs while the rowids of `records` stay below
Big == 1000000000     \* the +1e9 / -1e9 the bounding box starts from
LonTop == 360         \* the 360.0 of _lon_to_0_360, the clamp and the wrap split

\* The corpus directory: per path the file name's parts (product letters as
\* written, the first ten digits).
GribNames ==
    [ gA |-> [prod |-> "flxf", cyc |-> Stamp(0, 0)],
      gB |-> [prod |-> "OCNF", cyc |-> Stamp(0, 12)] ]

GribPaths == DOMAIN GribNames

\* What a file on disk can hold: size, mtime and its GRIB messages (shortName,
\* validity instant, first/last grid point; geo = FALSE when a grid key cannot
\* be read).
GribVersions ==
    [ v1 |-> [size |-> 10, mtime |-> 100,
              msgs |-> << [shortName |-> "t2m", valid |-> 12, geo |-> TRUE,
                           lo1 |-> 0, lo2 |-> 359, la1 |-> 90, la2 |-> -90],
                          [shortName |-> "None", valid |-> NoneInt, geo |-> FALSE,
                           lo1 |-> 0, lo2 |-> 0, la1 |-> 0, la2 |-> 0] >>],
      \* longitudes above 360 and below 0
      v2 |-> [size |-> 20, mtime |-> 200,
              msgs |-> << [shortName |-> "t2m", valid |-> 30, geo |-> TRUE,
                           lo1 |-> 700, lo2 |-> 715, la1 |-> 10, la2 |-> 50],
                          [shortName |-> "prate", valid |-> 36, geo |-> TRUE,
                           lo1 |-> -20, lo2 |-> -5, la1 |-> 10, la2 |-> 50] >>],
      \* no message has readable grid keys
      v3 |-> [size |-> 30, mtime |-> 300,
              msgs |-> << [shortName |-> "prate", valid |-> 24, geo |-> FALSE,
                           lo1 |-> 0, lo2 |-> 0, la1 |-> 0, la2 |-> 0] >>] ]

VersionNames == DOMAIN GribVersions

\* str.lower() of a product code.
Lower(p) == CASE p = "FLXF" -> "flxf" [] p = "OCNF" -> "ocnf" [] OTHER -> p

\* _to_iso(date_int, time_int): 'YYYY-MM-DDTHH:MM:00Z'.
to_iso(instant) == [t |-> instant, sfx |-> "Z"]

minmax(a, b) == IF a <= b THEN <<a, b>> ELSE <<b, a>>

\* _lon_to_0_360: x % 360.0.
lon_to_0_360(x) == x % LonTop

\* _parse_filename_meta: the lower-cased product and the first ten digits as
\* the cycle time.
parse_filename_meta(path) ==
    [product |-> Lower(GribNames[path].prod),
     cycle_time |-> to_iso(to_dt(GribNames[path].cyc))]

\* The loop of extract_file_metadata over the messages, from accumulator acc.
RECURSIVE ScanMeta(_, _)
ScanMeta(msgs, acc) ==
    IF msgs = << >> THEN acc
    ELSE
      LET m  == Head(msgs)
          a1 == IF m.shortName # "None"
                THEN [acc EXCEPT !.variables = @ \cup {m.shortName}] ELSE acc
          a2 == IF m.valid # NoneInt
                THEN [a1 EXCEPT
                        !.tstart = IF @ = NoneInt \/ m.valid < @ THEN m.valid ELSE @,
                        !.tend   = IF @ = NoneInt \/ m.valid > @ THEN m.valid ELSE @]
                ELSE a1
          lo == minmax(lon_to_0_360(m.lo1), lon_to_0_360(m.lo2))
          la == minmax(m.la1, m.la2)
          a3 == IF m.geo
                THEN [a2 EXCEPT !.lon_min = IF lo[1] < @ THEN lo[1] ELSE @,
                                !.lon_max = IF lo[2] > @ THEN lo[2] ELSE @,
                                !.lat_min = IF la[1] < @ THEN la[1] ELSE @,
                                !.lat_max = IF la[2] > @ THEN la[2] ELSE @]
                ELSE a2
      IN  ScanMeta(Tail(msgs), a3)

\* max(0.0, min(360.0, x))
MutClamp(x) == x + LonTop
Clamp(x) == IF x < 0 THEN 0 ELSE IF x > LonTop THEN LonTop ELSE x

\* extract_file_metadata(path) for the content the file holds now.
extract_file_metadata(path, content) ==
    LET acc == ScanMeta(content.msgs,
                        [variables |-> {}, tstart |-> NoneInt, tend |-> NoneInt,
                         lat_min |-> Big, lat_max |-> -Big,
                         lon_min |-> Big, lon_max |-> -Big])
        nm     == parse_filename_meta(path)
        notime == acc.tstart = NoneInt \/ acc.tend = NoneInt
        nolat  == acc.lat_min > acc.lat_max
        nolon  == acc.lon_min > acc.lon_max
    IN  [path |-> path, size |-> content.size, mtime |-> content.mtime,
         product |-> nm.product, cycle_time |-> nm.cycle_time,
         time_start |-> IF notime THEN to_iso(0) ELSE to_iso(acc.tstart),
         time_end   |-> IF notime THEN to_iso(0) ELSE to_iso(acc.tend),
         lat_min |-> IF nolat THEN -90 ELSE acc.lat_min,
         lat_max |-> IF nolat THEN 90 ELSE acc.lat_max,
         lon_min_0_360 |-> Clamp(IF nolon THEN 0 ELSE acc.lon_min),
         lon_max_0_360 |-> Clamp(IF nolon THEN LonTop ELSE acc.lon_max),
         variables |-> acc.variables]

\* INSERT INTO files ... ON CONFLICT(path) DO UPDATE SET ...: the row keeps
\* its id when the path is known.
UpsertFile(ftab, m) ==
    LET old == {f \in ftab : f.path = m.path}
        id  == IF old = {} THEN NextRowid(ftab) ELSE (CHOOSE f \in old : TRUE).id
    IN  (ftab \ old) \cup {WithId(m, id)}

\* executemany("INSERT INTO records(file_id, var)", sorted(variables)).
RECURSIVE InsertRecords(_, _, _)
InsertRecords(rtab, file_id, vs) ==
    IF vs = << >> THEN rtab
    ELSE InsertRecords(rtab \cup {[id |-> NextRowid(rtab), file_id |-> file_id,
                                   var |-> Head(vs)]},
                       file_id, Tail(vs))

\* DELETE FROM records WHERE file_id=?
MutDeleteRecords(rtab, file_id) == rtab
DeleteRecords(rtab, file_id) == {r \in rtab : r.file_id # file_id}

\* One iteration of `for m in to_refresh` on db = [files, records, spatial].
RefreshOne(db, m) ==
    LET f2      == UpsertFile(db.files, m)
        file_id == (CHOOSE f \in f2 : f.path = m.path).id
        r2      == InsertRecords(DeleteRecords(db.records, file_id), file_id,
                                 SortedSeq(m.variables))
        rec_ids == {r.id : r \in {x \in r2 : x.file_id = file_id}}
        s2      == {s \in db.spatial : s.rec_id \notin rec_ids}
                   \cup {[rec_id |-> rid, min_lon |-> m.lon_min_0_360,
                          max_lon |-> m.lon_max_0_360, min_lat |-> m.lat_min,
                          max_lat |-> m.lat_max] : rid \in rec_ids}
    IN  [files |-> f2, records |-> r2, spatial |-> s2]

RECURSIVE RefreshAll(_, _)
RefreshAll(db, metas) ==
    IF metas = << >> THEN db ELSE RefreshAll(RefreshOne(db, Head(metas)), Tail(metas))

\* sorted(set(map(str, files))): the paths present, in text order.
PathRank(p) == CASE p = "gA" -> 1 [] p = "gB" -> 2 [] OTHER -> 3
RECURSIVE SortedPaths(_)
SortedPaths(S) ==
    IF S = {} THEN << >>
    ELSE LET m == CHOOSE x \in S : \A y \in S : PathRank(x) <= PathRank(y)
         IN  <<m>> \o SortedPaths(S \ {m})

\* The up-to-date test of build_index: same size and mtime within half a second.
UpToDate(path) ==
    \E f \in files : /\ f.path = path
                     /\ f.size = GribVersions[disk[path]].size
                     /\ Abs(f.mtime - GribVersions[disk[path]].mtime) * 2 < 1

\* build_index(root, db_path): create the schema, collect the files that are
\* new or changed, refresh each of them, commit.
build_index ==
    LET present    == {p \in GribPaths : disk[p] # "absent"}
        stale      == {p \in present : ~ UpToDate(p)}
        order      == SortedPaths(stale)
        to_refresh == [i \in DOMAIN order |->
                         extract_file_metadata(order[i], GribVersions[disk[order[i]]])]
        db2        == RefreshAll([files |-> files, records |-> records,
                                  spatial |-> spatial_index], to_refresh)
    IN  /\ NextRowid(records) <= MaxRecId
        /\ db_exists' = TRUE
        /\ files' = db2.files
        /\ records' = db2.records
        /\ spatial_index' = db2.spatial
        /\ q_args' = [kind |-> "none"]
        /\ q_ret' = [kind |-> "none"]
        /\ UNCHANGED <<disk, bunk_vars, res_vars, ext_vars, scan_vars, times_vars,
                   names_vars, conn_vars, fetch_vars>>

\* The environment writes a file of the corpus (a download, a replacement).
WriteFile(path, v) ==
    /\ disk[path] # v
    /\ disk' = [disk EXCEPT ![path] = v]
    /\ q_args' = [kind |-> "none"]
    /\ q_ret' = [kind |-> "none"]
    /\ UNCHANGED <<db_exists, files, records, spatial_index, bunk_vars, res_vars, ext_vars,
                   scan_vars, times_vars,
                   names_vars, conn_vars, fetch_vars>>

\* An optional iterable argument: given or None, and its items.
Opt(given, items) == [given |-> given, items |-> items]

\* `tuple(x) if x else None`: an empty iterable is falsy, like None.
MutTruthy(o) == o.given
Truthy(o) == o.given /\ o.items # {}

\* The file rows, as a list in rowid order (SELECT without ORDER BY).
RECURSIVE ById(_)
ById(S) ==
    IF S = {} THEN << >>
    ELSE LET m == CHOOSE x \in S : \A y \in S : x.id <= y.id
         IN  <<m>> \o ById(S \ {m})

\* `for r in rows: if r[0] in seen: continue`: the rows whose file id did not
\* occur earlier in the list, one dict each.
RECURSIVE DedupFrom(_, _)
DedupFrom(rows, seen) ==
    IF rows = << >> THEN << >>
    ELSE IF Head(rows).id \in seen THEN DedupFrom(Tail(rows), seen)
    ELSE <<Head(rows)>> \o DedupFrom(Tail(rows), seen \cup {Head(rows).id})

MutDedup(rows) == rows \o rows
Dedup(rows) == DedupFrom(rows, {})

\* The set inclusion test of the ALL branch.
MutIsSuperset(have, need) == have \cap need # {}
IsSuperset(have, need) == need \subseteq have

\* query._one_span(a, b): the join of spatial_index, records and files under
\* the bbox, time, product and (ANY mode) variable predicates; the ALL mode
\* filter on the file's variable set; one dict per file id.
one_span(a, b, q) ==
    LET prods == {Lower(x) : x \in q.products.items}
        rows  == {f \in files :
                    \E r \in records : \E s \in spatial_index :
                       /\ r.id = s.rec_id /\ f.id = r.file_id
                       /\ s.max_lon >= a /\ s.min_lon <= b
                       /\ s.max_lat >= q.lat_min /\ s.min_lat <= q.lat_max
                       /\ LexLeq(q.start_iso, f.time_end)
                       /\ LexLeq(f.time_start, q.end_iso)
                       /\ (Truthy(q.products) => f.product \in prods)
                       /\ ((Truthy(q.vars_any) /\ ~ q.require_all)
                             => r.var \in q.vars_any.items)}
        var_map(fid) == {r.var : r \in {x \in records : x.file_id = fid}}
        kept  == IF Truthy(q.vars_any) /\ q.require_all
                 THEN {f \in rows : IsSuperset(var_map(f.id), q.vars_any.items)}
                 ELSE rows
    IN  Dedup(ById(kept))

\* The list query() builds once the store is open.
Spans(q) ==
    IF q.lon_min <= q.lon_max THEN one_span(q.lon_min, q.lon_max, q)
    ELSE one_span(q.lon_min, LonTop, q) \o one_span(0, q.lon_max, q)

\* query(db_path, ...): [] when the store does not exist, else the spans.
query(q) ==
    IF ~ db_exists THEN [kind |-> "return", rows |-> << >>]
    ELSE [kind |-> "return", rows |-> Spans(q)]

\* The calls made of query().
QueryArgs ==
    [kind : {"query"},
     start_iso : {to_iso(0)}, end_iso : {to_iso(23), to_iso(47)},
     lon_min : {0, 350}, lon_max : {10, LonTop},
     lat_min : {-90, 60}, lat_max : {90},
     vars_any : {Opt(FALSE, {}), Opt(TRUE, {}), Opt(TRUE, {"t2m"}),
                 Opt(TRUE, {"t2m", "prate"})},
     require_all : BOOLEAN,
     products : {Opt(FALSE, {}), Opt(TRUE, {}), Opt(TRUE, {"OCNF"})}]

\* One call of query().  The call only reads the store, so one call is followed
\* from each state of the store: q_args and q_ret describe the last operation.
Query(q) ==
    /\ q_args.kind = "none"
    /\ q_args' = q
    /\ q_ret' = query(q)
    /\ UNCHANGED <<disk, db_exists, files, records, spatial_index,
                   bunk_vars, res_vars, ext_vars, scan_vars, times_vars,
                   names_vars, conn_vars, fetch_vars>>

(***************************************************************************)
(* query_file_index.py: the resolver                                       *)
(***************************************************************************)

MaxQRows == 3         \* rows of the table the resolver reads

\* The rows the table may hold (without rowid): all of one day, times on the
\* hour, written as _to_utc_iso writes them.
QRow(path, var, lt, ref, fc) ==
    [file_path |-> path, var |-> var, level_type |-> lt,
     ref_time_utc |-> to_utc_iso(ref), forecast_time_utc |-> to_utc_iso(fc),
     lead_hours |-> fc - ref]

QRowShapes ==
    { QRow("p1", "t2m", "surface", 0, 14),
      QRow("p2", "t2m", "surface", 6, 18),
      QRow("p3", "t2m", "surface", 0, 18),
      QRow("p4", "t2m", "surface", 6, 12),
      QRow("p5", "t2m", "surface", 6, 18),
      QRow("p6", "t2m", "surface", 6, 16),
      QRow("p7", "prate", "surface", 12, 16),
      QRow("p8", "t2m", "None", 12, 16) }

\* The tables: up to MaxQRows distinct rows in any insertion order.
QTables ==
    UNION { { t \in [1..n -> QRowShapes] : \A i, j \in 1..n : i # j => t[i] # t[j] }
            : n \in 0..MaxQRows }

\* The rows of the table with their rowid, the position of insertion.
QRows == {[id |-> i, row |-> records_q[i]] : i \in DOMAIN records_q}

\* A time argument: a datetime (naive or aware, UTC), or an ISO-8601 text
\* without offset ("naive_str"), or with "Z" or "+00:00" ("utc_str").
TimeArg(form, t) == [form |-> form, t |-> t]

\* _to_iso_str_or_passthrough: a text without "Z", "+" or "-" after the date
\* is passed through as it is; everything else becomes _to_utc_iso's text.
to_iso_str_or_passthrough(q) ==
    IF q.form = "naive_str" THEN [t |-> q.t, sfx |-> ""] ELSE to_utc_iso(q.t)

\* julianday(text) as a multiple of 2^-31 day, times three: SQLite divides the
\* integer milliseconds by 86400000.0, and a double near 2.46e6 has steps of
\* 2^-31 day.  An hour is 2^28/3 steps, so an instant h hours after a midnight
\* is at (h * 2^28 + RoundErr3(h)) / 3 steps above it once rounded to nearest.
RoundErr3(h) == CASE h % 3 = 0 -> 0 [] h % 3 = 1 -> -1 [] OTHER -> 1

\* ABS((julianday(forecast_time_utc) - julianday(?)) * 24.0), as the pair
\* (whole hours, rounding residue) that orders like the double does: the
\* subtraction and the product by 24.0 are exact.
delta_hours(fc, qt) ==
    LET a == IsoInstant(fc)
        b == IsoInstant(qt)
    IN  IF a >= b THEN [h |-> a - b, e |-> RoundErr3(a) - RoundErr3(b)]
        ELSE [h |-> b - a, e |-> RoundErr3(b) - RoundErr3(a)]

MutDeltaLess(x, y) == x.h > y.h
DeltaLess(x, y) == x.h < y.h \/ (x.h = y.h /\ x.e < y.e)

\* The columns of `records` the two SELECT statements of the resolver name.
ResolverColumns ==
    {"id", "file_path", "var", "level_type", "ref_time_utc", "forecast_time_utc",
     "lead_hours"}

\* SQL's `a = b` as a WHERE condition: not true when either side is NULL.
SqlEquals(a, b) == a # "None" /\ b # "None" /\ a = b

\* WHERE var = ? AND level_type = ?  (a NULL level_type equals nothing).
Matching(var, level_type) ==
    {r \in QRows : /\ r.row.var = var
                              /\ r.row.level_type # "None"
                              /\ r.row.level_type = level_type}

\* ORDER BY delta_hours ASC, ref_time_utc DESC: x sorts before y.
NearestBefore(x, y, qt) ==
    LET dx == delta_hours(x.row.forecast_time_utc, qt)
        dy == delta_hours(y.row.forecast_time_utc, qt)
    IN  \/ DeltaLess(dx, dy)
        \/ /\ dx = dy
           /\ ~ LexLeq(x.row.ref_time_utc, y.row.ref_time_utc)

\* The rows LIMIT 1 may return: those no other row sorts before.  Which of
\* several such rows comes first is left to the storage engine.
NearestOutcomes(a) ==
    LET qt == to_iso_str_or_passthrough(a.query_time)
        c  == Matching(a.var, a.level_type)
    IN  {x \in c : \A y \in c : ~ NearestBefore(y, x, qt)}

NearestArgs ==
    [kind : {"nearest"},
     query_time : {TimeArg("datetime", 15), TimeArg("datetime", 16),
                   TimeArg("naive_str", 16), TimeArg("utc_str", 17)},
     level_type : {"surface"}, var : {"t2m", "prate"}]

\* query_nearest_record(query_time, level_type, var)
query_nearest_record(a) ==
    /\ r_args' = a
    /\ IF NearestOutcomes(a) = {} THEN r_ret' = [kind |-> "None"]
       ELSE \E x \in NearestOutcomes(a) : r_ret' = [kind |-> "row", row |-> x]
    /\ UNCHANGED <<records_q, bunk_vars, grib_vars, ext_vars, scan_vars, times_vars,
                   names_vars, conn_vars, fetch_vars>>

\* The WHERE clause of query_records_in_range: text comparisons.
InRange(a) ==
    LET s == to_iso_str_or_passthrough(a.start_time)
        e == to_iso_str_or_passthrough(a.end_time)
    IN  {r \in Matching(a.var, a.level_type) :
           /\ LexLeq(s, r.row.forecast_time_utc)
           /\ LexLeq(r.row.forecast_time_utc, e)}

\* ROW_NUMBER() OVER (PARTITION BY var, level_type, forecast_time_utc
\* ORDER BY ref_time_utc DESC) = 1: the rows of a partition no other row of it
\* sorts before.
RankedFirst(c, fc) ==
    {x \in c : /\ x.row.forecast_time_utc = fc
               /\ \A y \in c : y.row.forecast_time_utc = fc
                     => LexLeq(y.row.ref_time_utc, x.row.ref_time_utc)}

\* ORDER BY forecast_time_utc ASC over a set of timestamp texts.
RECURSIVE SortedTexts(_)
SortedTexts(S) ==
    IF S = {} THEN << >>
    ELSE LET m == CHOOSE x \in S : \A y \in S : LexLeq(x, y)
         IN  <<m>> \o SortedTexts(S \ {m})

\* The lists query_records_in_range may return.
RangeOutcomes(a) ==
    LET c   == InRange(a)
        fcs == SortedTexts({x.row.forecast_time_utc : x \in c})
    IN  {o \in [DOMAIN fcs -> c] : \A i \in DOMAIN fcs : o[i] \in RankedFirst(c, fcs[i])}

RangeArgs ==
    [kind : {"range"},
     start_time : {TimeArg("datetime", 12), TimeArg("naive_str", 14)},
     end_time : {TimeArg("datetime", 18), TimeArg("naive_str", 18),
                 TimeArg("utc_str", 16)},
     level_type : {"surface"}, var : {"t2m"}]

\* query_records_in_range(start_time, end_time, level_type, var)
query_records_in_range(a) ==
    /\ r_args' = a
    /\ \E o \in RangeOutcomes(a) : r_ret' = [kind |-> "rows", rows |-> o]
    /\ UNCHANGED <<records_q, bunk_vars, grib_vars, ext_vars, scan_vars, times_vars,
                   names_vars, conn_vars, fetch_vars>>

(***************************************************************************)
(* query_file_index.py: the parallel extraction stage                      *)
(***************************************************************************)

\* The GRIB messages of the files the table's rows name: the names of the
\* variable, the level type, and what codes_grib_get_data returns (a list of
\* lat/lon/value mappings, or something else).
Pt(lat, lon, value) == [lat |-> lat, lon |-> lon, value |-> value]
XMsg(cf, short, tol, data, pts) ==
    [cfVarName |-> cf, shortName |-> short, typeOfLevel |-> tol, data |-> data, points |-> pts]

XCorpus ==
    [ p1 |-> << XMsg("t2m", "2t", "surface", "points", <<Pt(40, 10, 1), Pt(80, 10, 2)>>) >>,
      p2 |-> << XMsg("prate", "prate", "surface", "points", <<Pt(40, 10, 3)>>),
                XMsg("t2m", "2t", "surface", "points", <<Pt(40, 10, 4), Pt(45, 15, 5)>>) >>,
      p3 |-> << XMsg("t2m", "2t", "surface", "points", <<Pt(40, 10, 6)>>) >>,
      p4 |-> << XMsg("t2m", "2t", "heightAboveGround", "points", <<Pt(40, 10, 7)>>),
                XMsg("None", "t2m", "surface", "points", <<Pt(40, 10, 8)>>),
                XMsg("t2m", "2t", "surface", "points", <<Pt(40, 10, 9)>>) >>,
      p5 |-> << XMsg("t2m", "2t", "surface", "other", << >>) >>,
      p6 |-> << XMsg("t2m", "2t", "surface", "points", <<Pt(80, 10, 10)>>) >>,
      p7 |-> << >>,
      p8 |-> << >> ]

XPaths == DOMAIN XCorpus

\* The forecast instant of each of these messages (reference time plus lead):
\* a file may hold the same variable for several forecast times.
XForecast ==
    [ p1 |-> <<14>>, p2 |-> <<18, 18>>, p3 |-> <<18>>, p4 |-> <<12, 6, 12>>,
      p5 |-> <<18>>, p6 |-> <<16>>, p7 |-> << >>, p8 |-> << >> ]

\* What can go wrong with a file: open() fails, codes_grib_new_from_file
\* raises, codes_grib_get_data raises on the matching message.
FaultModes == {"none", "open", "read", "data"}

\* _msg_matches: cfVarName or shortName is var, and typeOfLevel is level_type.
msg_matches(h, var, level_type) ==
    ~ ((h.cfVarName # var /\ h.shortName # var) \/ h.typeOfLevel # level_type)

\* The rows a worker emits for the points of a message inside bbox.
RECURSIVE ItemsOf(_, _, _)
ItemsOf(points, rec, a) ==
    IF points = << >> THEN << >>
    ELSE LET pt == Head(points)
             inside == /\ pt.lat >= a.bbox.min_lat /\ pt.lat <= a.bbox.max_lat
                       /\ pt.lon >= a.bbox.min_lon /\ pt.lon <= a.bbox.max_lon
             item == [prediction_time |-> rec.row.forecast_time_utc,
                      create_time |-> rec.row.ref_time_utc,
                      type |-> a.var, level |-> a.level_type,
                      value_min |-> pt.value, value_max |-> pt.value,
                      path |-> rec.row.file_path, lat |-> pt.lat, lon |-> pt.lon]
         IN  (IF inside THEN <<item>> ELSE << >>) \o ItemsOf(Tail(points), rec, a)

\* The message loop of _process_record_worker: out, and whether an exception
\* ended it (caught and logged by the worker).
RECURSIVE WorkerLoop(_, _, _, _)
WorkerLoop(msgs, rec, a, fault) ==
    IF msgs = << >> THEN [out |-> << >>, failed |-> FALSE]
    ELSE IF fault = "read" THEN [out |-> << >>, failed |-> TRUE]
    ELSE IF msg_matches(Head(msgs), a.var, a.level_type)
         THEN IF fault = "data" THEN [out |-> << >>, failed |-> TRUE]
              ELSE IF Head(msgs).data # "points" THEN [out |-> << >>, failed |-> FALSE]
              ELSE [out |-> ItemsOf(Head(msgs).points, rec, a), failed |-> FALSE]
         ELSE WorkerLoop(Tail(msgs), rec, a, fault)

\* _process_record_worker(rec, var, level_type, bbox)
process_record_worker(rec, a) ==
    IF x_fault[rec.row.file_path] = "open" THEN [out |-> << >>, failed |-> TRUE]
    ELSE WorkerLoop(XCorpus[rec.row.file_path], rec, a, x_fault[rec.row.file_path])

XArgs ==
    [kind : {"range"},
     start_time : {TimeArg("datetime", 12)},
     end_time : {TimeArg("datetime", 18), TimeArg("datetime", 10)},
     level_type : {"surface"}, var : {"t2m"},
     bbox : {[min_lat |-> 30, min_lon |-> 0, max_lat |-> 50, max_lon |-> 20]},
     prefer_processes : BOOLEAN]

\* query_func up to the choice of the executor: resolve the records; return []
\* when there are none.
query_func_start(a) ==
    /\ x_pc = "idle"
    /\ r_args' = a
    /\ \E o \in RangeOutcomes(a) :
          /\ x_records' = o
          /\ x_opens' = [i \in DOMAIN o |-> 0]
          /\ IF o = << >>
             THEN /\ x_pc' = "done"
                  /\ x_ret' = [kind |-> "return", items |-> << >>]
                  /\ UNCHANGED x_strategy
             ELSE /\ x_pc' = IF a.prefer_processes THEN "try_process" ELSE "submit"
                  /\ x_strategy' = IF a.prefer_processes THEN "none" ELSE "thread"
                  /\ UNCHANGED x_ret
    /\ UNCHANGED <<x_submitted, x_worked, x_lost, x_broken, x_pending, x_out, x_log, x_fault,
                   records_q, r_ret, bunk_vars, grib_vars, scan_vars, times_vars,
                   names_vars, conn_vars, fetch_vars>>

\* _run_with_executor(ProcessPoolExecutor): the executor is constructed.
ProcessPoolStarts ==
    /\ x_pc = "try_process"
    /\ x_pc' = "submit"
    /\ x_strategy' = "process"
    /\ UNCHANGED <<x_records, x_submitted, x_worked, x_lost, x_broken, x_opens, x_pending,
                   x_out, x_ret, x_log, x_fault,
                   res_vars, bunk_vars, grib_vars, scan_vars, times_vars,
                   names_vars, conn_vars, fetch_vars>>

\* _run_with_executor(ProcessPoolExecutor) raises: the executor cannot be
\* constructed, or a submit raises (a process cannot be spawned, the pool is
\* broken) after some records were submitted.  The exception is caught, ran
\* stays False, and _run_with_executor(ThreadPoolExecutor) starts over every
\* record with a new out_local.
ProcessPoolFails ==
    /\ \/ x_pc = "try_process"
       \/ x_pc = "submit" /\ x_strategy = "process"
    /\ x_pc' = "submit"
    /\ x_strategy' = "thread"
    /\ x_submitted' = {}
    /\ x_worked' = {}
    /\ x_lost' = {}
    /\ x_broken' = FALSE
    /\ x_pending' = {}
    /\ x_out' = << >>
    /\ UNCHANGED <<x_records, x_opens, x_ret, x_log, x_fault,
                   res_vars, bunk_vars, grib_vars, scan_vars, times_vars,
                   names_vars, conn_vars, fetch_vars>>

\* ex.submit(_process_record_worker, rec, ...) for the next record of the
\* list; after the last one the as_completed loop starts.
ex_submit ==
    LET k == Cardinality(x_submitted) + 1
    IN  /\ x_pc = "submit"
        /\ ~ x_broken
        /\ k <= Len(x_records)
        /\ x_submitted' = x_submitted \cup {k}
        /\ x_pc' = IF k = Len(x_records) THEN "collect" ELSE "submit"
        /\ x_pending' = IF k = Len(x_records) THEN DOMAIN x_records ELSE x_pending
        /\ UNCHANGED <<x_records, x_strategy, x_worked, x_lost, x_broken, x_opens,
                       x_out, x_ret, x_log, x_fault,
                       res_vars, bunk_vars, grib_vars, scan_vars, times_vars,
                   names_vars, conn_vars, fetch_vars>>

\* A worker of the pool runs _process_record_worker for a submitted record: it
\* opens the record's file, and its failure is logged.
worker_runs(i) ==
    /\ x_pc \in {"submit", "collect"}
    /\ i \in x_submitted \ x_worked
    /\ ~ x_broken
    /\ x_opens' = [x_opens EXCEPT ![i] = @ + 1]
    /\ x_worked' = x_worked \cup {i}
    /\ x_log' = IF process_record_worker(x_records[i], r_args).failed
                THEN x_log \cup {x_records[i].row.file_path} ELSE x_log
    /\ UNCHANGED <<x_pc, x_records, x_strategy, x_submitted, x_lost, x_broken, x_pending,
                   x_out, x_ret, x_fault,
                   res_vars, bunk_vars, grib_vars, scan_vars, times_vars,
                   names_vars, conn_vars, fetch_vars>>

\* A worker process of the process pool dies (killed, or it cannot bootstrap):
\* the pool is broken, and every future that has no result yet gets the
\* BrokenProcessPool exception.
ProcessPoolBreaks ==
    /\ x_pc \in {"submit", "collect"}
    /\ x_strategy = "process"
    /\ ~ x_broken
    /\ x_worked # DOMAIN x_records
    /\ x_broken' = TRUE
    /\ UNCHANGED <<x_pc, x_records, x_strategy, x_submitted, x_worked, x_lost, x_opens,
                   x_pending, x_out, x_ret, x_log, x_fault,
                   res_vars, bunk_vars, grib_vars, scan_vars, times_vars,
                   names_vars, conn_vars, fetch_vars>>

\* out_local.extend(part) when part is not empty.
MutExtend(out_local, part) == IF part = << >> THEN << >> ELSE out_local \o part
Extend(out_local, part) == IF part # << >> THEN out_local \o part ELSE out_local

\* One turn of `for fut in as_completed(futures)`: the future of record i is
\* done; its result is appended, or its exception is caught and logged.
as_completed_next(i) ==
    /\ x_pc = "collect"
    /\ i \in x_pending
    /\ \/ /\ i \in x_worked
          /\ x_out' = Extend(x_out, process_record_worker(x_records[i], r_args).out)
          /\ UNCHANGED x_lost
       \/ /\ i \notin x_worked
          /\ x_broken
          /\ x_lost' = x_lost \cup {i}
          /\ UNCHANGED x_out
    /\ x_pending' = x_pending \ {i}
    /\ UNCHANGED <<x_pc, x_records, x_strategy, x_submitted, x_worked, x_broken, x_opens,
                   x_ret, x_log, x_fault,
                   res_vars, bunk_vars, grib_vars, scan_vars, times_vars,
                   names_vars, conn_vars, fetch_vars>>

\* The executor is left, all_out is out_local, and query_func returns it (ran
\* is True after the process run, so no thread run follows it).
query_func_return ==
    /\ x_pc = "collect"
    /\ x_pending = {}
    /\ x_pc' = "done"
    /\ x_ret' = [kind |-> "return", items |-> x_out]
    /\ UNCHANGED <<x_records, x_strategy, x_submitted, x_worked, x_lost, x_broken, x_opens,
                   x_pending, x_out, x_log, x_fault,
                   res_vars, bunk_vars, grib_vars, scan_vars, times_vars,
                   names_vars, conn_vars, fetch_vars>>

(***************************************************************************)
(* _compute_times_from_message, called on one message                      *)
(***************************************************************************)

\* The headers a message may have: each key readable or not.
Headers ==
    { Header(dd, dt, ft, sr, es, st) :
        dd \in {NoneInt, 0}, dt \in {NoneInt, 12, 1200}, ft \in {NoneInt, 0, 6},
        sr \in {"None", "6-12", "6", "x-y"}, es \in {NoneInt, 12}, st \in {NoneInt, 9} }

\* bunk_index.scan_grib_messages calls its _compute_times_from_message.
bunk_compute_times ==
    /\ t_ret.kind = "none"
    /\ t_ret' = [kind |-> "called", fn |-> "bunk_index",
                 res |-> compute_times_from_message(t_msg)]
    /\ UNCHANGED <<t_msg, bunk_vars, grib_vars, res_vars, ext_vars, scan_vars,
                   names_vars, conn_vars, fetch_vars>>

\* A caller of grid_util calls its _compute_times_from_message.
grid_util_compute_times ==
    /\ t_ret.kind = "none"
    /\ t_ret' = [kind |-> "called", fn |-> "grid_util",
                 res |-> grid_util_compute_times_from_message(t_msg)]
    /\ UNCHANGED <<t_msg, bunk_vars, grib_vars, res_vars, ext_vars, scan_vars,
                   names_vars, conn_vars, fetch_vars>>

(***************************************************************************)
(* The message loops, one decoder call at a time                           *)
(***************************************************************************)

MaxMsgs == 2          \* messages of a scanned file

\* A message of a scanned file: its header keys, what the worker reads of it,
\* and whether codes_grib_new_from_file raises when it gets to it.
ScanMsg(hdr, x, corrupt) == [hdr |-> hdr, x |-> x, corrupt |-> corrupt]

ScanMsgKinds ==
    { \* times readable, the worker's message, data as points
      ScanMsg(Header(0, 1200, 6, "None", NoneInt, NoneInt),
              XMsg("t2m", "2t", "surface", "points", <<Pt(40, 10, 1)>>), FALSE),
      \* times readable, another variable
      ScanMsg(Header(0, 12, NoneInt, "6-12", 12, 12),
              XMsg("prate", "prate", "surface", "points", <<Pt(40, 10, 2)>>), FALSE),
      \* no reference time; codes_grib_get_data raises on it
      ScanMsg(Header(NoneInt, NoneInt, 6, "None", NoneInt, NoneInt),
              XMsg("t2m", "2t", "surface", "raise", << >>), FALSE),
      \* no lead time; data of an unsupported type
      ScanMsg(Header(0, 12, NoneInt, "None", NoneInt, NoneInt),
              XMsg("t2m", "2t", "surface", "other", << >>), FALSE),
      \* the decoder cannot read the message
      ScanMsg(Header(0, 12, 6, "None", NoneInt, NoneInt),
              XMsg("t2m", "2t", "surface", "points", <<Pt(40, 10, 3)>>), TRUE) }

ScanFiles == UNION { [1..n -> ScanMsgKinds] : n \in 0..MaxMsgs }

ScanFns == {"scan_grib_messages", "extract_file_metadata", "process_record_worker"}

\* What the worker is asked to extract.
ScanVar == "t2m"
ScanLevel == "surface"

\* `h = codes_grib_new_from_file(f); if h is None: break`, then the try is
\* entered: at the end of the file the loop is left, a message the decoder
\* cannot read raises (caught is where the exception ends up), otherwise a
\* handle is held.
ReadMessage(caught) ==
    /\ s_pc = "read"
    /\ IF s_pos = Len(s_msgs)
       THEN /\ s_pc' = "returned"
            /\ UNCHANGED <<s_pos, s_live>>
       ELSE IF s_msgs[s_pos + 1].corrupt
       THEN /\ s_pc' = caught
            /\ UNCHANGED <<s_pos, s_live>>
       ELSE /\ s_pc' = "body"
            /\ s_pos' = s_pos + 1
            /\ s_live' = s_live \cup {s_pos + 1}
    /\ UNCHANGED <<s_fn, s_msgs, s_rel, s_exit, s_out,
                   bunk_vars, grib_vars, res_vars, ext_vars, times_vars,
                   names_vars, conn_vars, fetch_vars>>

\* try: ... finally: control reaches the finally clause however the body is
\* left.
MutAfterBody(exit) == IF exit = "raise" THEN "raised" ELSE "finally"
AfterBody(exit) == "finally"

\* The try body is left by `exit`, having appended `item` (or nothing).
LeaveBody(exit, items) ==
    /\ s_pc = "body"
    /\ s_exit' = exit
    /\ s_out' = s_out \o items
    /\ s_pc' = AfterBody(exit)
    /\ UNCHANGED <<s_fn, s_msgs, s_pos, s_live, s_rel,
                   bunk_vars, grib_vars, res_vars, ext_vars, times_vars,
                   names_vars, conn_vars, fetch_vars>>

\* finally: codes_release(h); then the loop goes on, is left by the break, or
\* the exception propagates (caught is where it ends up).
ReleaseHandle(caught) ==
    /\ s_pc = "finally"
    /\ s_live' = s_live \ {s_pos}
    /\ s_rel' = [s_rel EXCEPT ![s_pos] = @ + 1]
    /\ s_pc' = CASE s_exit = "next"  -> "read"
                 [] s_exit = "break" -> "returned"
                 [] OTHER            -> caught
    /\ UNCHANGED <<s_fn, s_msgs, s_pos, s_exit, s_out,
                   bunk_vars, grib_vars, res_vars, ext_vars, times_vars,
                   names_vars, conn_vars, fetch_vars>>

\* bunk_index.scan_grib_messages: nothing catches an exception of the loop.
scan_grib_messages_read ==
    s_fn = "scan_grib_messages" /\ ReadMessage("raised")
scan_grib_messages_body ==
    /\ s_fn = "scan_grib_messages"
    /\ s_pc = "body"
    /\ LET t == compute_times_from_message(s_msgs[s_pos].hdr)
       IN  IF t.err # "" THEN LeaveBody("raise", << >>)
           ELSE LeaveBody("next", << [var |-> s_msgs[s_pos].x.shortName,
                                      lead_hours |-> t.lead_hours] >>)
scan_grib_messages_release ==
    s_fn = "scan_grib_messages" /\ ReleaseHandle("raised")

\* grib_index.extract_file_metadata: every read of a key is in a try/except of
\* its own, so the body does not raise.
extract_file_metadata_read ==
    s_fn = "extract_file_metadata" /\ ReadMessage("raised")
extract_file_metadata_body ==
    /\ s_fn = "extract_file_metadata"
    /\ s_pc = "body"
    /\ LeaveBody("next", << [var |-> s_msgs[s_pos].x.shortName] >>)
extract_file_metadata_release ==
    s_fn = "extract_file_metadata" /\ ReleaseHandle("raised")

\* query_file_index._process_record_worker: the matching message ends the
\* loop; an exception is caught by the worker, which returns out.
process_record_worker_read ==
    s_fn = "process_record_worker" /\ ReadMessage("returned")
process_record_worker_body ==
    /\ s_fn = "process_record_worker"
    /\ s_pc = "body"
    /\ LET m == s_msgs[s_pos].x
       IN  IF ~ msg_matches(m, ScanVar, ScanLevel) THEN LeaveBody("next", << >>)
           ELSE IF m.data = "raise" THEN LeaveBody("raise", << >>)
           ELSE IF m.data # "points" THEN LeaveBody("break", << >>)
           ELSE LeaveBody("break", m.points)
process_record_worker_release ==
    s_fn = "process_record_worker" /\ ReleaseHandle("returned")

(***************************************************************************)
(* The two file name parsers, called on one name                           *)
(***************************************************************************)

\* A file name <product><first>.<member>.<second>.grb2.
CfsName(product, first, second) == [product |-> product, first |-> first, second |-> second]

\* The names handed to the parsers: products in lower and upper case, the two
\* stamps equal or not.
CfsNames ==
    { CfsName(pr, a, b) :
        pr \in {"flxf", "ocnf", "pgbf", "FLXF"},
        a \in {Stamp(0, 0), Stamp(0, 12), Stamp(1, 6), Stamp(1, 18)},
        b \in {Stamp(0, 0), Stamp(0, 12), Stamp(1, 6), Stamp(1, 18)} }

\* Whether [a-z]+ (without IGNORECASE) matches the product letters.
IsLowerCase(pr) == Lower(pr) = pr

\* bunk_index.parse_cfs_filename on such a name: CFS_NAME wants lower-case
\* letters before the first ten digits, which are the group `forecast`; the
\* second ten are the group `run`.
parse_cfs_name(n) ==
    IF ~ IsLowerCase(n.product) THEN [err |-> "ValueError"]
    ELSE IF to_dt(n.first) = NoneInt \/ to_dt(n.second) = NoneInt
    THEN [err |-> "ValueError"]
    ELSE [err |-> "", product |-> n.product, forecast_dt |-> to_dt(n.first),
          run_dt |-> to_dt(n.second)]

\* grib_index._parse_filename_meta on such a name: FNAME_CYCLE_RE ignores the
\* case, the first ten digits are the group `cyc`, the cycle time.
parse_filename_meta_name(n) ==
    [product |-> Lower(n.product), cycle_time |-> to_iso(to_dt(n.first))]

parse_cfs_filename_call ==
    /\ n_ret.bunk.kind = "none"
    /\ n_ret' = [n_ret EXCEPT !.bunk = [kind |-> "called", res |-> parse_cfs_name(n_name)]]
    /\ UNCHANGED <<n_name, bunk_vars, grib_vars, res_vars, ext_vars, scan_vars, times_vars,
                   conn_vars, fetch_vars>>

parse_filename_meta_call ==
    /\ n_ret.grib.kind = "none"
    /\ n_ret' = [n_ret EXCEPT !.grib = [kind |-> "called",
                                        res |-> parse_filename_meta_name(n_name)]]
    /\ UNCHANGED <<n_name, bunk_vars, grib_vars, res_vars, ext_vars, scan_vars, times_vars,
                   conn_vars, fetch_vars>>

(***************************************************************************)
(* The storage connection of a query, one statement at a time              *)
(***************************************************************************)

ConnFns == {"query", "query_nearest_record", "query_records_in_range"}

\* What a call finds: for grib_index.query whether the store exists, whether
\* the longitude range wraps, whether the ALL filter applies, and what the
\* count statements, the span statement and the var_map statement of each span
\* do; for the resolvers what their one SELECT does.
QueryPlans ==
    [db : BOOLEAN, wrap : BOOLEAN, all : BOOLEAN, counts : {"ok", "raise"},
     span : [1..2 -> {"rows", "empty", "raise"}], var_map : {"ok", "raise"}]
ResolverPlans == [sql : {"rows", "empty", "raise"}]

\* grib_index.query: `if not os.path.exists(db_path): return []`, else
\* conn = sqlite3.connect(db_path).
query_connect ==
    /\ c_fn = "query" /\ c_pc = "start"
    /\ IF c_plan.db THEN c_conn' = "open" /\ c_pc' = "counts"
       ELSE c_pc' = "returned" /\ UNCHANGED c_conn
    /\ UNCHANGED <<c_fn, c_plan, bunk_vars, grib_vars, res_vars, ext_vars, scan_vars,
                   times_vars, names_vars, fetch_vars>>

\* try: the three COUNT statements; except Exception: a warning.
query_counts ==
    /\ c_fn = "query" /\ c_pc = "counts"
    /\ c_pc' = "span1"
    /\ UNCHANGED <<c_fn, c_plan, c_conn, bunk_vars, grib_vars, res_vars, ext_vars, scan_vars,
                   times_vars, names_vars, fetch_vars>>

\* Where query goes after span k.
AfterSpan(k) == IF k = 1 /\ c_plan.wrap THEN "span2" ELSE "close"

\* _one_span: cur.execute(base, params), and in ALL mode, unless no row came
\* back, the SELECT that fills var_map.  Nothing catches what they raise.
query_one_span ==
    /\ c_fn = "query" /\ c_pc \in {"span1", "span2"}
    /\ LET k == IF c_pc = "span1" THEN 1 ELSE 2
       IN  c_pc' = IF c_plan.span[k] = "raise" THEN "raised"
                   ELSE IF c_plan.all /\ c_plan.span[k] = "rows" /\ c_plan.var_map = "raise"
                   THEN "raised"
                   ELSE AfterSpan(k)
    /\ UNCHANGED <<c_fn, c_plan, c_conn, bunk_vars, grib_vars, res_vars, ext_vars, scan_vars,
                   times_vars, names_vars, fetch_vars>>

\* conn.close(); return results
query_close ==
    /\ c_fn = "query" /\ c_pc = "close"
    /\ c_conn' = "closed"
    /\ c_pc' = "returned"
    /\ UNCHANGED <<c_fn, c_plan, bunk_vars, grib_vars, res_vars, ext_vars, scan_vars,
                   times_vars, names_vars, fetch_vars>>

\* The resolvers: with closing(sqlite3.connect(GRIB_INDEX_SQLITE)) as conn.
resolver_connect ==
    /\ c_fn \in {"query_nearest_record", "query_records_in_range"} /\ c_pc = "start"
    /\ c_conn' = "open"
    /\ c_pc' = "sql"
    /\ UNCHANGED <<c_fn, c_plan, bunk_vars, grib_vars, res_vars, ext_vars, scan_vars,
                   times_vars, names_vars, fetch_vars>>

\* conn.execute(sql, ...) and the fetch, inside the with block.
resolver_execute ==
    /\ c_fn \in {"query_nearest_record", "query_records_in_range"} /\ c_pc = "sql"
    /\ c_pc' = IF c_plan.sql = "raise" THEN "exit_raise" ELSE "exit_return"
    /\ UNCHANGED <<c_fn, c_plan, c_conn, bunk_vars, grib_vars, res_vars, ext_vars, scan_vars,
                   times_vars, names_vars, fetch_vars>>

\* closing.__exit__: conn.close(), whichever way the block is left.
resolver_exit ==
    /\ c_fn \in {"query_nearest_record", "query_records_in_range"}
    /\ c_pc \in {"exit_raise", "exit_return"}
    /\ c_conn' = "closed"
    /\ c_pc' = IF c_pc = "exit_raise" THEN "raised" ELSE "returned"
    /\ UNCHANGED <<c_fn, c_plan, bunk_vars, grib_vars, res_vars, ext_vars, scan_vars,
                   times_vars, names_vars, fetch_vars>>

(***************************************************************************)
(* cfs_fetch.py: crawl_and_download and its download_file tasks            *)
(***************************************************************************)

MaxRuns == 2          \* runs of crawl_and_download over the same out_dir
MAX_RETRIES == 5

\* The file URLs the crawl finds, in the order of file_urls.
Urls == {"u1", "u2"}
UrlRank(u) == IF u = "u1" THEN 1 ELSE 2

\* The HTTP statuses a server answers with.
HttpStatuses == {200, 404, 503}

\* A download_file task: where it is, the network errors caught so far
\* (attempts), the session.get calls made, the status it returned.
Task(pc, attempts, requests, status) ==
    [pc |-> pc, attempts |-> attempts, requests |-> requests, status |-> status]
NewTask == Task("created", 0, 0, "none")

\* Tasks inside `async with semaphore`.
Holding == {u \in Urls : d_task[u].pc \in {"sleeping", "woken", "requesting",
                                            "transfer", "backoff"}}

\* return (status, message): the task is done and as_completed will yield it.
Returns(u, attempts, status) ==
    /\ d_task' = [d_task EXCEPT ![u] = Task("done", attempts, @.requests, status)]
    /\ d_doneq' = Append(d_doneq, u)
    /\ d_hard' = (d_hard \/ status \notin {"downloaded", "already_ok", "skipped", "net_fail"})

\* crawl_and_download up to the as_completed loop: one task per file URL.
crawl_start(conc) ==
    /\ d_main \in {"idle", "returned", "raised"}
    /\ d_runs < MaxRuns
    /\ d_runs' = d_runs + 1
    /\ d_conc' = conc
    /\ d_task' = [u \in Urls |-> NewTask]
    /\ d_doneq' = << >>
    /\ d_main' = "running"
    /\ d_hard' = FALSE
    /\ d_late' = {}
    /\ UNCHANGED <<d_disk, bunk_vars, grib_vars, res_vars, ext_vars, scan_vars, times_vars,
                   names_vars, conn_vars>>

\* download_file from its first line to the semaphore: the tasks start in the
\* order they were created; an existing destination ends the call.
task_begins(u) ==
    /\ d_main = "running"
    /\ d_task[u].pc = "created"
    /\ \A v \in Urls : UrlRank(v) < UrlRank(u) => d_task[v].pc # "created"
    /\ IF d_disk[u] # "absent"
       THEN Returns(u, 0, "already_ok")
       ELSE /\ d_task' = [d_task EXCEPT ![u].pc =
                             IF Cardinality(Holding) < d_conc THEN "sleeping" ELSE "sem_wait"]
            /\ UNCHANGED <<d_doneq, d_hard>>
    /\ UNCHANGED <<d_disk, d_main, d_conc, d_runs, d_late,
                   bunk_vars, grib_vars, res_vars, ext_vars, scan_vars, times_vars,
                   names_vars, conn_vars>>

\* The semaphore is acquired by a waiting task; the rate limiter and the
\* jittered sleep follow.
semaphore_acquired(u) ==
    /\ d_main = "running"
    /\ d_task[u].pc = "sem_wait"
    /\ Cardinality(Holding) < d_conc
    /\ d_task' = [d_task EXCEPT ![u].pc = "sleeping"]
    /\ UNCHANGED <<d_disk, d_doneq, d_main, d_conc, d_runs, d_hard, d_late,
                   bunk_vars, grib_vars, res_vars, ext_vars, scan_vars, times_vars,
                   names_vars, conn_vars>>

\* Time passes only while the event loop has nothing ready to run: a task
\* that finished is yielded by as_completed before any timer can expire.
LoopIdle == d_main = "running" /\ d_doneq = << >>

\* The sleep of a task ends (the jitter before the request, or a backoff).
timer_fires(u) ==
    /\ LoopIdle
    /\ d_task[u].pc \in {"sleeping", "backoff"}
    /\ d_task' = [d_task EXCEPT ![u].pc = "woken"]
    /\ UNCHANGED <<d_disk, d_doneq, d_main, d_conc, d_runs, d_hard, d_late,
                   bunk_vars, grib_vars, res_vars, ext_vars, scan_vars, times_vars,
                   names_vars, conn_vars>>

\* session.get(url, ...) is entered: a request is issued.
session_get(u) ==
    /\ d_main = "running"
    /\ d_task[u].pc = "woken"
    /\ d_task' = [d_task EXCEPT ![u].pc = "requesting", ![u].requests = @ + 1]
    /\ d_late' = IF d_hard THEN d_late \cup {u} ELSE d_late
    /\ UNCHANGED <<d_disk, d_doneq, d_main, d_conc, d_runs, d_hard,
                   bunk_vars, grib_vars, res_vars, ext_vars, scan_vars, times_vars,
                   names_vars, conn_vars>>

\* The response arrives: any status but 200 ends the call; with 200 the
\* destination is opened "wb" (created or truncated) and the body is read.
response_arrives(u, status) ==
    /\ LoopIdle
    /\ d_task[u].pc = "requesting"
    /\ IF status # 200
       THEN /\ Returns(u, d_task[u].attempts, "error_http")
            /\ UNCHANGED d_disk
       ELSE /\ d_task' = [d_task EXCEPT ![u].pc = "transfer"]
            /\ d_disk' = [d_disk EXCEPT ![u] = "partial"]
            /\ UNCHANGED <<d_doneq, d_hard>>
    /\ UNCHANGED <<d_main, d_conc, d_runs, d_late,
                   bunk_vars, grib_vars, res_vars, ext_vars, scan_vars, times_vars,
                   names_vars, conn_vars>>

\* `if attempts >= MAX_RETRIES`
MutRetriesExhausted(attempts) == attempts > MAX_RETRIES
RetriesExhausted(attempts) == attempts >= MAX_RETRIES

\* aiohttp.ClientError, TimeoutError or gaierror, before the response or in
\* the middle of the body: attempts += 1, then net_fail or a backoff sleep.
\* What was written of the destination stays.
network_error(u) ==
    /\ LoopIdle
    /\ d_task[u].pc \in {"requesting", "transfer"}
    /\ IF RetriesExhausted(d_task[u].attempts + 1)
       THEN Returns(u, d_task[u].attempts + 1, "net_fail")
       ELSE /\ d_task' = [d_task EXCEPT ![u].pc = "backoff", ![u].attempts = @ + 1]
            /\ UNCHANGED <<d_doneq, d_hard>>
    /\ UNCHANGED <<d_disk, d_main, d_conc, d_runs, d_late,
                   bunk_vars, grib_vars, res_vars, ext_vars, scan_vars, times_vars,
                   names_vars, conn_vars>>

\* The last chunk is written: return ("downloaded", dest).
transfer_completes(u) ==
    /\ LoopIdle
    /\ d_task[u].pc = "transfer"
    /\ d_disk' = [d_disk EXCEPT ![u] = "complete"]
    /\ Returns(u, d_task[u].attempts, "downloaded")
    /\ UNCHANGED <<d_main, d_conc, d_runs, d_late,
                   bunk_vars, grib_vars, res_vars, ext_vars, scan_vars, times_vars,
                   names_vars, conn_vars>>

\* One turn of `for fut in asyncio.as_completed(tasks)`: on a hard error every
\* task that is not done is cancelled and RuntimeError is raised; after the
\* last task the call returns.
crawl_as_completed ==
    /\ d_main = "running"
    /\ d_doneq # << >>
    /\ LET u == Head(d_doneq)
           hard == d_task[u].status \notin {"downloaded", "already_ok", "skipped", "net_fail"}
       IN  IF hard
           THEN /\ d_task' = [v \in Urls |->
                                IF d_task[v].pc = "done" THEN d_task[v]
                                ELSE [d_task[v] EXCEPT !.pc = "cancelled"]]
                /\ d_main' = "raised"
                /\ d_doneq' = Tail(d_doneq)
           ELSE /\ d_doneq' = Tail(d_doneq)
                /\ d_main' = IF Tail(d_doneq) = << >> /\ \A v \in Urls : d_task[v].pc = "done"
                             THEN "returned" ELSE "running"
                /\ UNCHANGED d_task
    /\ UNCHANGED <<d_disk, d_conc, d_runs, d_hard, d_late,
                   bunk_vars, grib_vars, res_vars, ext_vars, scan_vars, times_vars,
                   names_vars, conn_vars>>

\* Nothing is running: no query_func call, no scan, no message at hand.
ExtIdle ==
    /\ x_pc = "idle" /\ x_records = << >> /\ x_strategy = "none"
    /\ x_submitted = {} /\ x_worked = {} /\ x_lost = {} /\ x_broken = FALSE
    /\ x_opens = << >> /\ x_pending = {}
    /\ x_out = << >> /\ x_ret = [kind |-> "none"] /\ x_log = {}
ScanIdle ==
    /\ s_fn = "none" /\ s_msgs = << >> /\ s_pos = 0 /\ s_pc = "idle"
    /\ s_live = {} /\ s_rel = << >> /\ s_exit = "none" /\ s_out = << >>
TimesIdle == t_msg = NoHeader /\ t_ret = [kind |-> "none"]
NamesIdle ==
    /\ n_name = CfsName("None", Stamp(0, 0), Stamp(0, 0))
    /\ n_ret = [bunk |-> [kind |-> "none"], grib |-> [kind |-> "none"]]
ConnIdle == c_fn = "none" /\ c_plan = [db |-> FALSE] /\ c_pc = "idle" /\ c_conn = "none"
FetchIdle ==
    /\ d_disk = [u \in Urls |-> "absent"] /\ d_task = [u \in Urls |-> NewTask]
    /\ d_doneq = << >> /\ d_main = "idle" /\ d_conc = 1 /\ d_runs = 0
    /\ d_hard = FALSE /\ d_late = {}

InitIdle ==
    /\ records_bunk = {} /\ bunk_ret = [path |-> "None", kind |-> "none", inserted |-> 0]
    /\ bunk_calls = [p \in BunkPaths |-> 0]
    /\ disk = [p \in GribPaths |-> "absent"] /\ db_exists = FALSE /\ files = {} /\ records = {}
    /\ spatial_index = {} /\ q_args = [kind |-> "none"] /\ q_ret = [kind |-> "none"]
    /\ records_q = << >> /\ r_args = [kind |-> "none"] /\ r_ret = [kind |-> "none"]
    /\ ExtIdle /\ x_fault = [p \in XPaths |-> "none"]
    /\ ScanIdle /\ TimesIdle /\ NamesIdle /\ ConnIdle /\ FetchIdle

InitBunk == InitIdle
NextBunk == \E path \in BunkPaths : index_file(path)
SpecBunk == InitBunk /\ [][NextBunk]_vars

\* The resolver is a function of the table it reads: every table of QTables.
InitRes ==
    /\ records_q \in QTables
    /\ records_bunk = {} /\ bunk_ret = [path |-> "None", kind |-> "none", inserted |-> 0]
    /\ bunk_calls = [p \in BunkPaths |-> 0]
    /\ disk = [p \in GribPaths |-> "absent"] /\ db_exists = FALSE /\ files = {}
    /\ records = {} /\ spatial_index = {}
    /\ q_args = [kind |-> "none"] /\ q_ret = [kind |-> "none"]
    /\ r_args = [kind |-> "none"] /\ r_ret = [kind |-> "none"]
    /\ ExtIdle /\ x_fault = [p \in XPaths |-> "none"]
    /\ ScanIdle /\ TimesIdle /\ NamesIdle /\ ConnIdle /\ FetchIdle
NextRes ==
    \/ \E a \in NearestArgs : query_nearest_record(a)
    \/ \E a \in RangeArgs : query_records_in_range(a)
SpecRes == InitRes /\ [][NextRes]_vars

\* One query_func call over a table of three files, each file sound or failing
\* in one of the ways of FaultModes.
XTables ==
    { << QRow("p4", "t2m", "surface", 6, 12), QRow("p6", "t2m", "surface", 6, 16),
         QRow("p2", "t2m", "surface", 6, 18) >>,
      << QRow("p1", "t2m", "surface", 0, 14), QRow("p5", "t2m", "surface", 6, 18),
         QRow("p3", "t2m", "surface", 0, 18) >> }
InitExt ==
    /\ records_q \in XTables
    /\ x_fault \in [XPaths -> FaultModes]
    /\ \A p \in XPaths : x_fault[p] # "none" => \E i \in DOMAIN records_q : records_q[i].file_path = p
    /\ records_bunk = {} /\ bunk_ret = [path |-> "None", kind |-> "none", inserted |-> 0]
    /\ bunk_calls = [p \in BunkPaths |-> 0]
    /\ disk = [p \in GribPaths |-> "absent"] /\ db_exists = FALSE /\ files = {}
    /\ records = {} /\ spatial_index = {}
    /\ q_args = [kind |-> "none"] /\ q_ret = [kind |-> "none"]
    /\ r_args = [kind |-> "none"] /\ r_ret = [kind |-> "none"]
    /\ ExtIdle /\ ScanIdle /\ TimesIdle /\ NamesIdle /\ ConnIdle /\ FetchIdle
NextExt ==
    \/ \E a \in XArgs : query_func_start(a)
    \/ ProcessPoolStarts
    \/ ProcessPoolFails
    \/ ex_submit
    \/ \E i \in 1..MaxQRows : worker_runs(i)
    \/ ProcessPoolBreaks
    \/ \E i \in 1..MaxQRows : as_completed_next(i)
    \/ query_func_return
SpecExt == InitExt /\ [][NextExt]_vars

\* One call of either _compute_times_from_message on a message with any
\* combination of readable and unreadable keys.
InitTimes ==
    /\ t_msg \in Headers /\ t_ret = [kind |-> "none"]
    /\ records_bunk = {} /\ bunk_ret = [path |-> "None", kind |-> "none", inserted |-> 0]
    /\ bunk_calls = [p \in BunkPaths |-> 0]
    /\ disk = [p \in GribPaths |-> "absent"] /\ db_exists = FALSE /\ files = {}
    /\ records = {} /\ spatial_index = {}
    /\ q_args = [kind |-> "none"] /\ q_ret = [kind |-> "none"]
    /\ records_q = << >> /\ r_args = [kind |-> "none"] /\ r_ret = [kind |-> "none"]
    /\ ExtIdle /\ x_fault = [p \in XPaths |-> "none"]
    /\ ScanIdle /\ NamesIdle /\ ConnIdle /\ FetchIdle
NextTimes ==
    \/ bunk_compute_times
    \/ grid_util_compute_times
SpecTimes == InitTimes /\ [][NextTimes]_vars

\* One scan of a file by one of the three message loops.
InitScan ==
    /\ s_fn \in ScanFns /\ s_msgs \in ScanFiles
    /\ s_pos = 0 /\ s_pc = "read" /\ s_live = {}
    /\ s_rel = [i \in DOMAIN s_msgs |-> 0] /\ s_exit = "none" /\ s_out = << >>
    /\ records_bunk = {} /\ bunk_ret = [path |-> "None", kind |-> "none", inserted |-> 0]
    /\ bunk_calls = [p \in BunkPaths |-> 0]
    /\ disk = [p \in GribPaths |-> "absent"] /\ db_exists = FALSE /\ files = {}
    /\ records = {} /\ spatial_index = {}
    /\ q_args = [kind |-> "none"] /\ q_ret = [kind |-> "none"]
    /\ records_q = << >> /\ r_args = [kind |-> "none"] /\ r_ret = [kind |-> "none"]
    /\ ExtIdle /\ x_fault = [p \in XPaths |-> "none"]
    /\ TimesIdle /\ NamesIdle /\ ConnIdle /\ FetchIdle
NextScan ==
    \/ scan_grib_messages_read
    \/ scan_grib_messages_body
    \/ scan_grib_messages_release
    \/ extract_file_metadata_read
    \/ extract_file_metadata_body
    \/ extract_file_metadata_release
    \/ process_record_worker_read
    \/ process_record_worker_body
    \/ process_record_worker_release
SpecScan == InitScan /\ [][NextScan]_vars

\* Both parsers on one name of the CFS form.
InitNames ==
    /\ n_name \in CfsNames
    /\ n_ret = [bunk |-> [kind |-> "none"], grib |-> [kind |-> "none"]]
    /\ records_bunk = {} /\ bunk_ret = [path |-> "None", kind |-> "none", inserted |-> 0]
    /\ bunk_calls = [p \in BunkPaths |-> 0]
    /\ disk = [p \in GribPaths |-> "absent"] /\ db_exists = FALSE /\ files = {}
    /\ records = {} /\ spatial_index = {}
    /\ q_args = [kind |-> "none"] /\ q_ret = [kind |-> "none"]
    /\ records_q = << >> /\ r_args = [kind |-> "none"] /\ r_ret = [kind |-> "none"]
    /\ ExtIdle /\ x_fault = [p \in XPaths |-> "none"]
    /\ ScanIdle /\ TimesIdle /\ ConnIdle /\ FetchIdle
NextNames ==
    \/ parse_cfs_filename_call
    \/ parse_filename_meta_call
SpecNames == InitNames /\ [][NextNames]_vars

\* One call of a function that opens a storage connection.
InitConn ==
    /\ \/ c_fn = "query" /\ c_plan \in QueryPlans
       \/ c_fn \in ConnFns \ {"query"} /\ c_plan \in ResolverPlans
    /\ c_pc = "start" /\ c_conn = "none"
    /\ records_bunk = {} /\ bunk_ret = [path |-> "None", kind |-> "none", inserted |-> 0]
    /\ bunk_calls = [p \in BunkPaths |-> 0]
    /\ disk = [p \in GribPaths |-> "absent"] /\ db_exists = FALSE /\ files = {}
    /\ records = {} /\ spatial_index = {}
    /\ q_args = [kind |-> "none"] /\ q_ret = [kind |-> "none"]
    /\ records_q = << >> /\ r_args = [kind |-> "none"] /\ r_ret = [kind |-> "none"]
    /\ ExtIdle /\ x_fault = [p \in XPaths |-> "none"]
    /\ ScanIdle /\ TimesIdle /\ NamesIdle /\ FetchIdle
NextConn ==
    \/ query_connect
    \/ query_counts
    \/ query_one_span
    \/ query_close
    \/ resolver_connect
    \/ resolver_execute
    \/ resolver_exit
SpecConn == InitConn /\ [][NextConn]_vars

\* Runs of crawl_and_download, one after the other, over the same out_dir.
InitFetch == InitIdle
NextFetch ==
    \/ \E conc \in 1..Cardinality(Urls) : crawl_start(conc)
    \/ \E u \in Urls : task_begins(u)
    \/ \E u \in Urls : semaphore_acquired(u)
    \/ \E u \in Urls : timer_fires(u)
    \/ \E u \in Urls : session_get(u)
    \/ \E u \in Urls : \E status \in HttpStatuses : response_arrives(u, status)
    \/ \E u \in Urls : network_error(u)
    \/ \E u \in Urls : transfer_completes(u)
    \/ crawl_as_completed
SpecFetch == InitFetch /\ [][NextFetch]_vars

Init == InitIdle
Next ==
    \/ build_index
    \/ \E path \in GribPaths : \E v \in VersionNames : WriteFile(path, v)
    \/ \E q \in QueryArgs : Query(q)
Spec == Init /\ [][Next]_vars

(***************************************************************************)
(* Properties                                                              *)
(***************************************************************************)

\* The natural key of a row of bunk_index's table, NULLs compared as values.
NaturalKey(r) == <<r.file_path, r.var, r.level_type, r.level_value, r.forecast_time_utc>>

\* C1: indexing a file again leaves as many rows as indexing it once, and the
\* natural key (file_path, var, level_type, level_value, forecast_time_utc)
\* never occurs in two rows, NULL level columns included.
C1_IdempotentIndexing ==
    /\ \A r1, r2 \in records_bunk : NaturalKey(r1) = NaturalKey(r2) => r1 = r2
    /\ \A p \in BunkPaths :
          bunk_calls[p] >= 1 =>
             Cardinality({r \in records_bunk : r.file_path = p}) = Cardinality(VarNames(p))

\* C7: every stored record has lead_hours equal to the hours from run time to
\* forecast time, and lead_hours >= 0.
C7_LeadHoursInvariant ==
    \A r \in records_bunk :
       /\ r.lead_hours = IsoInstant(r.forecast_time_utc) - IsoInstant(r.run_time_utc)
       /\ r.lead_hours >= 0

\* The paths of a list of file dicts, and whether a list repeats a file.
PathsOf(rows) == {rows[i].path : i \in DOMAIN rows}
NoDuplicates(rows) == \A i, j \in DOMAIN rows : i # j => rows[i].id # rows[j].id

\* C2: a wraparound query (lon_min > lon_max) returns exactly the union of the
\* queries (lon_min, 360) and (0, lon_max), and no file twice.
C2_WrapIsUnionNoDuplicates ==
    (q_args.kind = "query" /\ db_exists /\ q_args.lon_min > q_args.lon_max) =>
       /\ PathsOf(q_ret.rows) =
             PathsOf(query([q_args EXCEPT !.lon_max = LonTop]).rows)
             \cup PathsOf(query([q_args EXCEPT !.lon_min = 0]).rows)
       /\ NoDuplicates(q_ret.rows)

\* The filters of a query other than the variable filter, on a row of `files`.
LonOverlap(f, a, b) == f.lon_max_0_360 >= a /\ f.lon_min_0_360 <= b
PassesOther(f, q) ==
    /\ IF q.lon_min <= q.lon_max THEN LonOverlap(f, q.lon_min, q.lon_max)
       ELSE LonOverlap(f, q.lon_min, LonTop) \/ LonOverlap(f, 0, q.lon_max)
    /\ f.lat_max >= q.lat_min /\ f.lat_min <= q.lat_max
    /\ LexLeq(q.start_iso, f.time_end) /\ LexLeq(f.time_start, q.end_iso)
    /\ (q.products.given /\ q.products.items # {})
          => f.product \in {Lower(x) : x \in q.products.items}

\* C3: with a non-empty variable set S, mode ANY returns the files that pass
\* the other filters and have a record whose var is in S; mode ALL returns
\* the files that pass the other filters and whose variable set includes S.
C3_AnyAllSemantics ==
    (q_args.kind = "query" /\ db_exists
       /\ q_args.vars_any.given /\ q_args.vars_any.items # {}) =>
       PathsOf(q_ret.rows) =
          {f.path : f \in {g \in files :
              /\ PassesOther(g, q_args)
              /\ IF q_args.require_all
                 THEN q_args.vars_any.items \subseteq g.variables
                 ELSE \E r \in records : r.file_id = g.id /\ r.var \in q_args.vars_any.items}}

\* C3 case: a file with {t2m} and a file with {t2m, prate} both pass the other
\* filters, S = {t2m, prate}, mode ALL: only the second is returned.
C3_Witness ==
    /\ q_args.kind = "query" /\ db_exists /\ q_args.require_all
    /\ q_args.vars_any = Opt(TRUE, {"t2m", "prate"})
    /\ \E a, b \in files :
          /\ a.variables = {"t2m"} /\ b.variables = {"t2m", "prate"}
          /\ PassesOther(a, q_args) /\ PassesOther(b, q_args)
          /\ PathsOf(q_ret.rows) = {b.path}

\* Whether a query gives a variable or product set that is empty.
GivenEmpty(q) ==
    \/ q.vars_any.given /\ q.vars_any.items = {}
    \/ q.products.given /\ q.products.items = {}

\* C9 as stated: a query with an empty variable or product set fails with
\* InvalidQuery.
C9_EmptyRejected ==
    (q_args.kind = "query" /\ GivenEmpty(q_args)) => q_ret.kind = "InvalidQuery"

\* The query with every empty set left out.
WithoutEmpty(q) ==
    [q EXCEPT !.vars_any = IF @.items = {} THEN Opt(FALSE, {}) ELSE @,
              !.products = IF @.items = {} THEN Opt(FALSE, {}) ELSE @]

\* C9 amended: a query with an empty variable or product set returns, without
\* error, what the same query without that filter returns.
C9_EmptyAsAbsent ==
    (q_args.kind = "query" /\ GivenEmpty(q_args)) =>
       /\ q_ret.kind = "return"
       /\ q_ret = query(WithoutEmpty(q_args))

\* C9 case: an empty variable set, ANY mode, and files are returned.
C9_Witness ==
    /\ q_args.kind = "query" /\ q_args.vars_any = Opt(TRUE, {})
    /\ ~ q_args.require_all /\ q_ret.kind = "return" /\ q_ret.rows # << >>

\* C10: a query against a store that does not exist fails with IndexUnavailable,
\* an outcome that differs from the one of a store without matching record.
C10_IndexUnavailable ==
    (q_args.kind = "query" /\ ~ db_exists) =>
       /\ q_ret.kind = "IndexUnavailable"
       /\ q_ret # [kind |-> "return", rows |-> << >>]

\* Hours between a row's forecast time and the target of the last call.
Dist(x) == Abs(IsoInstant(x.row.forecast_time_utc) - r_args.query_time.t)
Candidates == Matching(r_args.var, r_args.level_type)

\* C4 as stated: the resolver returns a record at minimal distance from the
\* target, and the same record whatever the insertion order (whichever row the
\* engine puts first among rows that sort alike).
C4_NearestOrderFree ==
    (r_args.kind = "nearest" /\ Candidates # {}) =>
       /\ r_ret.kind = "row"
       /\ \A c \in Candidates : Dist(r_ret.row) <= Dist(c)
       /\ \A o \in NearestOutcomes(r_args) : o.row = r_ret.row.row

\* C4 amended: the resolver returns a record at minimal distance from the
\* target; the record does not depend on the insertion order when no two
\* candidates have both the same distance and the same run time.
C4_NearestMinimal ==
    (r_args.kind = "nearest" /\ Candidates # {}) =>
       /\ r_ret.kind = "row"
       /\ r_ret.row \in Candidates
       /\ \A c \in Candidates : Dist(r_ret.row) <= Dist(c)
       /\ (\A x, y \in Candidates :
              (x # y) => ~ (Dist(x) = Dist(y) /\ x.row.ref_time_utc = y.row.ref_time_utc))
            => \A o \in NearestOutcomes(r_args) : o.row = r_ret.row.row

\* C4 case: records at 12:00 and 18:00, target 16:00, the 18:00 record is
\* returned although it was inserted last.
C4_Witness ==
    /\ r_args.kind = "nearest" /\ r_args.query_time.t = 16 /\ r_ret.kind = "row"
    /\ IsoInstant(r_ret.row.row.forecast_time_utc) = 18
    /\ \E c \in Candidates : /\ IsoInstant(c.row.forecast_time_utc) = 12
                             /\ c.id < r_ret.row.id
    /\ \A c \in Candidates : IsoInstant(c.row.forecast_time_utc) \in {12, 18}

\* C5: among the records at the same distance from the target as the returned
\* one, none has a later run time.
C5_TieBreakLatestRun ==
    (r_args.kind = "nearest" /\ r_ret.kind = "row") =>
       \A c \in Candidates :
          Dist(c) = Dist(r_ret.row)
             => IsoInstant(c.row.ref_time_utc) <= IsoInstant(r_ret.row.row.ref_time_utc)

\* C8: the range resolver returns one record for every forecast time in
\* [start, end] that has a record of the var and level type, the one with the
\* greatest run time, in ascending order of forecast time.
C8_RangeLatestWins ==
    (r_args.kind = "range") =>
       LET inwin == {x \in Candidates :
                       /\ r_args.start_time.t <= IsoInstant(x.row.forecast_time_utc)
                       /\ IsoInstant(x.row.forecast_time_utc) <= r_args.end_time.t}
           rows  == r_ret.rows
       IN  /\ {rows[i].row.forecast_time_utc : i \in DOMAIN rows}
                = {x.row.forecast_time_utc : x \in inwin}
           /\ \A i, j \in DOMAIN rows :
                 i < j => IsoInstant(rows[i].row.forecast_time_utc)
                            < IsoInstant(rows[j].row.forecast_time_utc)
           /\ \A i \in DOMAIN rows : \A x \in inwin :
                 x.row.forecast_time_utc = rows[i].row.forecast_time_utc
                    => IsoInstant(x.row.ref_time_utc)
                         <= IsoInstant(rows[i].row.ref_time_utc)

\* The rows the first matching message of a record's file holds inside bbox.
FilePoints(rec, a) ==
    LET msgs == XCorpus[rec.row.file_path]
        hits == {k \in DOMAIN msgs : msg_matches(msgs[k], a.var, a.level_type)}
    IN  IF hits = {} THEN << >>
        ELSE IF msgs[Min(hits)].data # "points" THEN << >>
        ELSE ItemsOf(msgs[Min(hits)].points, rec, a)

\* The items of a result that come from one file.
ItemsFrom(items, path) == SelectSeq(items, LAMBDA it : it.path = path)

\* C6: whichever files fail, query_func returns; a file whose extraction
\* failed (its worker logged a failure, or its future raised) contributes no
\* item, and every other file of the batch contributes exactly its points
\* inside the bounding box.
C6_PartialFailure ==
    (x_pc = "done") =>
       /\ x_ret.kind = "return"
       /\ \A i \in DOMAIN x_ret.items :
             \E k \in DOMAIN x_records : x_ret.items[i].path = x_records[k].row.file_path
       /\ \A k \in DOMAIN x_records :
             LET rec == x_records[k]
             IN  /\ x_fault[rec.row.file_path] = "none" => rec.row.file_path \notin x_log
                 /\ (x_fault[rec.row.file_path] = "open" /\ k \notin x_lost)
                       => rec.row.file_path \in x_log
                 /\ ItemsFrom(x_ret.items, rec.row.file_path) =
                       (IF rec.row.file_path \in x_log \/ k \in x_lost
                        THEN << >> ELSE FilePoints(rec, r_args))

\* C6 case: three files, the decoder fails on one, the result holds the points
\* of the other two.
C6_Witness ==
    /\ x_pc = "done" /\ Len(x_records) = 3
    /\ x_log = {"p6"} /\ x_fault["p6"] = "data"
    /\ ItemsFrom(x_ret.items, "p4") # << >>
    /\ ItemsFrom(x_ret.items, "p2") # << >>
    /\ ItemsFrom(x_ret.items, "p6") = << >>

\* C11: the time filter of the range resolver is inclusive at both ends: a
\* candidate whose forecast time equals start or end is returned, and no
\* returned record has a forecast time outside [start, end].
C11_TimeFilterInclusive ==
    (r_args.kind = "range" /\ r_args.start_time.t <= r_args.end_time.t) =>
       LET rows == r_ret.rows
       IN  /\ \A x \in Candidates :
                 IsoInstant(x.row.forecast_time_utc) \in {r_args.start_time.t, r_args.end_time.t}
                    => \E i \in DOMAIN rows :
                          rows[i].row.forecast_time_utc = x.row.forecast_time_utc
           /\ \A i \in DOMAIN rows :
                 /\ r_args.start_time.t <= IsoInstant(rows[i].row.forecast_time_utc)
                 /\ IsoInstant(rows[i].row.forecast_time_utc) <= r_args.end_time.t

\* How often a file occurs in a result list.
Occurrences(rows, fid) == Cardinality({i \in DOMAIN rows : rows[i].id = fid})

\* The files that pass every filter of an ALL-mode query.
AllModeFiles(q) ==
    {f \in files : PassesOther(f, q) /\ q.vars_any.items \subseteq f.variables}

AllModeQuery ==
    /\ q_args.kind = "query" /\ db_exists /\ q_args.require_all
    /\ q_args.vars_any.given /\ q_args.vars_any.items # {}
    /\ q_args.lon_min <= q_args.lon_max

\* C12 as stated: in ALL mode a file that has every requested variable
\* contributes one candidate per requested variable to the result.
C12_AllOnePerVariable ==
    AllModeQuery =>
       \A f \in AllModeFiles(q_args) :
          Occurrences(q_ret.rows, f.id) = Cardinality(q_args.vars_any.items)

\* C12 amended: in ALL mode a file that has every requested variable
\* contributes exactly one candidate (one file summary with the file's whole
\* variable list) to the result of a query that does not wrap, however many
\* variables were requested; no other file contributes.
C12_AllOnePerFile ==
    AllModeQuery =>
       /\ \A f \in AllModeFiles(q_args) :
             /\ Occurrences(q_ret.rows, f.id) = 1
             /\ \A i \in DOMAIN q_ret.rows :
                   q_ret.rows[i].id = f.id => q_ret.rows[i].variables = f.variables
       /\ \A i \in DOMAIN q_ret.rows : q_ret.rows[i] \in AllModeFiles(q_args)

\* C12 case: two variables are requested in ALL mode and a file that has both
\* is in the result, once.
C12_Witness ==
    /\ AllModeQuery /\ q_args.vars_any.items = {"t2m", "prate"}
    /\ \E f \in AllModeFiles(q_args) : Occurrences(q_ret.rows, f.id) = 1
    /\ Len(q_ret.rows) = 1

\* C19: every stored longitude bound of a file, and of its rows in the spatial
\* index, lies in [0, 360].
C19_LonBoundsInRange ==
    /\ \A f \in files :
          /\ 0 <= f.lon_min_0_360 /\ f.lon_min_0_360 <= LonTop
          /\ 0 <= f.lon_max_0_360 /\ f.lon_max_0_360 <= LonTop
    /\ \A s \in spatial_index :
          /\ 0 <= s.min_lon /\ s.min_lon <= LonTop
          /\ 0 <= s.max_lon /\ s.max_lon <= LonTop

\* C19 case: the index holds a file whose messages reported longitudes above
\* 360 and below 0, and a file none of whose messages reported a longitude.
C19_Witness ==
    /\ \E f \in files :
          /\ \E i \in DOMAIN GribVersions.v2.msgs : GribVersions.v2.msgs[i].lo1 > LonTop
          /\ \E i \in DOMAIN GribVersions.v2.msgs : GribVersions.v2.msgs[i].lo1 < 0
          /\ f.size = GribVersions.v2.size
          /\ f.lon_min_0_360 = 340 /\ f.lon_max_0_360 = 355
    /\ \E f \in files :
          /\ \A i \in DOMAIN GribVersions.v3.msgs : ~ GribVersions.v3.msgs[i].geo
          /\ f.size = GribVersions.v3.size
          /\ f.lon_min_0_360 = 0 /\ f.lon_max_0_360 = LonTop

\* C13: during one query_func call the file of each winning record is opened
\* at most once.
C13_OpenAtMostOnce ==
    \A i \in DOMAIN x_opens : x_opens[i] <= 1

\* The items of the result, regrouped in the order of the winning records
\* (ascending forecast time).
RECURSIVE InRecordOrder(_)
InRecordOrder(k) ==
    IF k = 0 THEN << >>
    ELSE InRecordOrder(k - 1) \o ItemsFrom(x_ret.items, x_records[k].row.file_path)

\* C14: the list query_func returns does not depend on the order in which the
\* workers complete: it is in ascending order of forecast time, the items of
\* each record together.
C14_OrderIndependent ==
    (x_pc = "done") =>
       /\ x_ret.items = InRecordOrder(Len(x_records))
       /\ \A i, j \in DOMAIN x_ret.items :
             i < j => IsoInstant(x_ret.items[i].prediction_time)
                        <= IsoInstant(x_ret.items[j].prediction_time)

\* A record of the batch whose points are missing from the result because its
\* extraction failed.
Dropped(k) ==
    /\ x_records[k].row.file_path \in x_log \/ k \in x_lost
    /\ ItemsFrom(x_ret.items, x_records[k].row.file_path) = << >>
    /\ x_fault[x_records[k].row.file_path] \in {"none", "open"}
    /\ FilePoints(x_records[k], r_args) # << >>

\* C15: when query_func returns fewer items than a failure-free run would,
\* the returned value carries more than the list of items: a count or a flag
\* of the failures.
C15_NoSilentPartial ==
    (x_pc = "done" /\ \E k \in DOMAIN x_records : Dropped(k)) =>
       DOMAIN x_ret # {"kind", "items"}

\* C20: when the process pool cannot be started or fails, the thread pool is
\* run over all records and the call returns the thread run's output: the run
\* whose output is returned is not a failed process run, and the list holds,
\* once, the points of every record whose worker did not fail.
C20_ProcessToThreadFallback ==
    (x_pc = "done" /\ x_records # << >>) =>
       /\ x_ret.kind = "return"
       /\ x_strategy \in {"process", "thread"}
       /\ x_strategy = "process" => ~ x_broken
       /\ x_lost = {}
       /\ \A k \in DOMAIN x_records :
             ItemsFrom(x_ret.items, x_records[k].row.file_path) =
                (IF x_records[k].row.file_path \in x_log
                 THEN << >> ELSE FilePoints(x_records[k], r_args))

\* The lead the stated priority gives: forecastTime, else the end of stepRange,
\* else endStep.
ClaimedLead(h) ==
    IF h.forecastTime # NoneInt THEN h.forecastTime
    ELSE IF StepRangeEnd(h.stepRange) # NoneInt THEN StepRangeEnd(h.stepRange)
    ELSE h.endStep

\* C16: _compute_times_from_message takes the lead hours from forecastTime,
\* else from the end of stepRange, else from endStep; it fails with the
\* missing-reference-time error when dataDate or dataTime is absent and with
\* the missing-lead-time error when none of the three sources has a value.
C16_LeadPriority ==
    (t_ret.kind = "called") =>
       IF t_msg.dataDate = NoneInt \/ t_msg.dataTime = NoneInt
       THEN t_ret.res.err = "ValueError" /\ t_ret.res.msg = MissingReferenceTime
       ELSE IF ClaimedLead(t_msg) = NoneInt
       THEN t_ret.res.err = "ValueError" /\ t_ret.res.msg = MissingLeadTime
       ELSE /\ t_ret.res.err = ""
            /\ t_ret.res.lead_hours = ClaimedLead(t_msg)
            /\ t_ret.res.forecast = RefTime(t_msg) + ClaimedLead(t_msg)

\* C17: at most one handle is held; whenever the loop is about to read the
\* next message, has returned or has raised, no handle is held and every
\* handle obtained so far was released exactly once; no handle is released
\* twice, and none before it was obtained.
C17_HandleDiscipline ==
    (s_fn \in ScanFns) =>
       /\ Cardinality(s_live) <= 1
       /\ s_live \subseteq {s_pos}
       /\ \A i \in DOMAIN s_rel : s_rel[i] <= 1
       /\ \A i \in DOMAIN s_rel : i > s_pos => s_rel[i] = 0
       /\ \A i \in DOMAIN s_rel : (i < s_pos) => s_rel[i] = 1
       /\ s_pc \in {"read", "returned", "raised"} =>
             /\ s_live = {}
             /\ \A i \in 1..s_pos : s_rel[i] = 1
       /\ s_pc \in {"body", "finally"} => (s_live = {s_pos} /\ s_rel[s_pos] = 0)

\* C17 case: scan_grib_messages read a sound message and then one whose time
\* fields are missing; the exception left the loop with both handles released.
C17_Witness ==
    /\ s_fn = "scan_grib_messages" /\ s_pc = "raised" /\ s_exit = "raise"
    /\ s_pos = 2 /\ s_live = {} /\ s_rel = <<1, 1>> /\ Len(s_out) = 1

\* C18: a file with a recognised name that holds at least one message whose
\* time fields can be read is indexed by index_file even when another of its
\* messages cannot be decoded: the call returns and the file has records.
C18_MessageErrorSkipsMessage ==
    \A p \in BunkPaths :
       ( /\ bunk_ret.path = p
         /\ parse_cfs_filename(p).err = ""
         /\ \E i \in DOMAIN BunkCorpus[p].msgs :
               compute_times_from_message(BunkCorpus[p].msgs[i]).err = "" )
       => /\ bunk_ret.kind = "return"
          /\ \E r \in records_bunk : r.file_path = p

\* C21: every item query_func returns for a record with prediction_time T
\* comes from a message whose forecast time is T.
C21_MessageOfForecastTime ==
    (x_pc = "done") =>
       \A i \in DOMAIN x_ret.items :
          LET it == x_ret.items[i]
              ms == XCorpus[it.path]
          IN  \E k \in DOMAIN ms :
                 /\ \E j \in DOMAIN ms[k].points :
                       /\ ms[k].points[j].value = it.value_min
                       /\ ms[k].points[j].lat = it.lat /\ ms[k].points[j].lon = it.lon
                 /\ XForecast[it.path][k] = IsoInstant(it.prediction_time)

\* The variables the messages of a file version name.
ContentVars(v) ==
    {GribVersions[v].msgs[i].shortName : i \in DOMAIN GribVersions[v].msgs} \ {"None"}

\* The records of a file in a records table.
RecordsOf(rtab, fid) == {r \in rtab : r.file_id = fid}

C23_SpatialConsistent ==
    /\ \A r \in records :
          /\ Cardinality({s \in spatial_index : s.rec_id = r.id}) = 1
          /\ \A s \in spatial_index : \A f \in files :
                (s.rec_id = r.id /\ f.id = r.file_id) =>
                   /\ s.min_lon = f.lon_min_0_360 /\ s.max_lon = f.lon_max_0_360
                   /\ s.min_lat = f.lat_min /\ s.max_lat = f.lat_max
    /\ \A s \in spatial_index : \E r \in records : r.id = s.rec_id

\* The forms in which a caller may give one instant.
TimeForms == {"datetime", "naive_str", "utc_str"}

\* C25: a start or end time given as a naive datetime, as a naive ISO-8601
\* text or as a text with an explicit UTC offset selects the same records: the
\* result of the range resolver holds the forecast times that the same call
\* with any other form of the same two instants selects, a record at the end
\* instant included.
C25_NaiveTimesAreUTC ==
    (r_args.kind = "range") =>
       \A fs, fe \in TimeForms :
          {r_ret.rows[i].row.forecast_time_utc : i \in DOMAIN r_ret.rows} =
             {x.row.forecast_time_utc :
                x \in InRange([r_args EXCEPT !.start_time.form = fs, !.end_time.form = fe])}

\* The level_type arguments a caller may pass (None included).
LevelArgs == {"surface", "heightAboveGround", "None"}

\* C26: every record index_file writes can be selected by the resolver: the
\* table has the columns the resolver's statements name, and the stored
\* level type satisfies `level_type = ?` for some argument.
C26_IndexedRecordsResolvable ==
    \A r \in records_bunk :
       /\ ResolverColumns \subseteq DOMAIN r
       /\ \E lt \in LevelArgs : SqlEquals(r.level_type, lt)

\* C27: for a name of the CFS form both parsers accept the name, derive the
\* same product, and take the same one of the two stamps as the run (cycle,
\* initialization) time.
C27_ParsersAgree ==
    (n_ret.bunk.kind = "called" /\ n_ret.grib.kind = "called"
       /\ IsLowerCase(n_name.product)) =>
       /\ n_ret.bunk.res.err = ""
       /\ n_ret.bunk.res.product = n_ret.grib.res.product
       /\ n_ret.bunk.res.run_dt = IsoInstant(n_ret.grib.res.cycle_time)

\* C24: when a call has returned or raised, the connection it opened is
\* closed.
C24_ConnectionReleased ==
    (c_pc \in {"returned", "raised"}) => c_conn # "open"

C29_StopOnFirstHardError ==
    /\ d_late = {}
    /\ d_main = "raised" =>
          /\ d_hard
          /\ \A u \in Urls : d_task[u].pc \in {"done", "cancelled"}
    /\ d_main = "returned" =>
          /\ ~ d_hard
          /\ \A u \in Urls : d_task[u].pc = "done"
    /\ \A u \in Urls : d_task[u].pc = "cancelled" => d_main = "raised"

\* C30: a destination that a call skips as already present is a complete
\* file.
C30_SkippedFilesComplete ==
    \A u \in Urls : d_task[u].status = "already_ok" => d_disk[u] = "complete"

====
